---------------------------- MODULE Spec2Model ----------------------------
(***************************************************************************)
(* Reddit sentiment pipeline (customer_feedback): the Lambda entry point   *)
(* of lambda_func.py with its batch and single processing modes, the       *)
(* lexicon scorer it calls, and the scraper's ingestion into the raw-posts *)
(* table (main.py).  The two DynamoDB tables are the shared state; every   *)
(* Lambda invocation is a process whose steps are its store calls, so      *)
(* concurrent invocations interleave at store-call granularity.            *)
(*                                                                         *)
(* Texts are sequences of whitespace-free tokens.  Scores are kept in      *)
(* tenths and confidences in thousandths so that all arithmetic is exact.  *)
(***************************************************************************)
EXTENDS Integers, Sequences, FiniteSets, TLC

(* ------------------------------ bounds -------------------------------- *)
NumPosts == 2
NumWorkers == 2
MaxBatchSize == 2
MaxInvocations == 2
MaxTextLen == 3         \* tokens of the texts enumerated in full
MaxRepeat == 6          \* repetitions of a pattern in the long texts
MaxChars == 5           \* characters of the texts normalized character by character
MaxItems == 3           \* analysis records in a scan of the processed table

PostIds == 1..NumPosts
Workers == 1..NumWorkers
BatchSizes == 1..MaxBatchSize

(* event.get('post_id') is None when the event carries no post_id *)
NoPostId == 0

(* event.get('batch_size', 25) *)
DefaultBatchSize == 25

Min(a, b) == IF a < b THEN a ELSE b
(* abs() left out *)
Abs_signed(a) == a
Abs(a) == IF a < 0 THEN 0 - a ELSE a

(* dict.get(key, default) *)
Get(d, key, default) == IF key \in DOMAIN d THEN d[key] ELSE default

(* ------------------------ SentimentAnalyzer --------------------------- *)
positive_keywords ==
    {"love", "amazing", "fantastic", "excellent", "great", "awesome",
     "perfect", "wonderful", "brilliant", "outstanding", "impressive",
     "helpful", "useful", "easy", "simple", "fast", "reliable",
     "recommend", "best", "good", "nice", "cool", "solid"}

negative_keywords ==
    {"hate", "terrible", "awful", "horrible", "bad", "worst",
     "frustrated", "annoying", "broken", "useless", "slow",
     "expensive", "confusing", "difficult", "problems", "issues",
     "bug", "error", "fail", "crashed", "disappointing", "waste"}

(* multipliers in tenths: 1.5 -> 15 *)
intensifiers ==
    [w \in {"very", "extremely", "incredibly", "absolutely", "completely", "totally"} |->
        CASE w = "very" -> 15
          [] w = "extremely" -> 20
          [] w = "incredibly" -> 20
          [] w = "absolutely" -> 18
          [] w = "completely" -> 16
          [] w = "totally" -> 16]

(* tokens of the modelled vocabulary that carry upper case, with text.lower() *)
LowerMap == [t \in {"GOOD", "Bad", "Very", "This", "I", "Lambda", "Azure"} |->
                CASE t = "GOOD" -> "good" [] t = "Bad" -> "bad" [] t = "Very" -> "very"
                  [] t = "This" -> "this" [] t = "I" -> "i"
                  [] t = "Lambda" -> "lambda" [] t = "Azure" -> "azure"]

(* tokens that the URL, /u/, /r/ and bold regexes delete completely *)
RemovedTokens == {"http://x.io/a", "https://y.io", "/u/bob", "/r/aws", "**bold**"}

(* str.lower() on one token *)
Lower(t) == IF t \in DOMAIN LowerMap THEN LowerMap[t] ELSE t

(* one token through lines 60-68: lowercased, then deleted if a regex eats it *)
CleanToken(t) ==
    LET low == Lower(t)
    IN  IF low \in RemovedTokens THEN "" ELSE low

(* preprocess_text: "" for empty text, else the cleaned tokens that survive
   ' '.join(text.split()) *)
preprocess_text(text) ==
    IF text = <<>> THEN <<>>
    ELSE LET cleaned == [k \in 1..Len(text) |-> CleanToken(text[k])]
         IN  SelectSeq(cleaned, LAMBDA t : t # "")

RECURSIVE ScanWords(_, _)

(* the scan with the intensifier test of lines 105-107 left out *)
ScanWords_noboost(words, n) ==
    IF n = 0 THEN [positive_score |-> 0, negative_score |-> 0, detected_keywords |-> <<>>]
    ELSE LET acc == ScanWords(words, n - 1)
             word == words[n]
         IN  IF word \in positive_keywords
             THEN [acc EXCEPT !.positive_score = @ + 10,
                              !.detected_keywords = Append(@, <<"+", word>>)]
             ELSE IF word \in negative_keywords
             THEN [acc EXCEPT !.negative_score = @ + 10,
                              !.detected_keywords = Append(@, <<"-", word>>)]
             ELSE acc

(* the scan of lines 97-115 over words[1..n]: scores in tenths and keywords *)
ScanWords(words, n) ==
    IF n = 0 THEN [positive_score |-> 0, negative_score |-> 0, detected_keywords |-> <<>>]
    ELSE LET acc == ScanWords(words, n - 1)
             word == words[n]
             base_weight == IF n > 1 /\ words[n-1] \in DOMAIN intensifiers
                            THEN intensifiers[words[n-1]] ELSE 10
         IN  IF word \in positive_keywords
             THEN [acc EXCEPT !.positive_score = @ + base_weight,
                              !.detected_keywords = Append(@, <<"+", word>>)]
             ELSE IF word \in negative_keywords
             THEN [acc EXCEPT !.negative_score = @ + base_weight,
                              !.detected_keywords = Append(@, <<"-", word>>)]
             ELSE acc

(* the limit of the business keywords used for the sentiment keywords too *)
KeywordLimit_business == 15
KeywordLimit == 10

(* lines 117-131 with the thresholds inclusive: >= 1.0 and <= -1.0 *)
Classify_inclusive(positive_score, negative_score, token_count) ==
    LET total_score == positive_score - negative_score
        label == IF total_score >= 10 THEN "POSITIVE"
                 ELSE IF total_score <= -10 THEN "NEGATIVE"
                 ELSE IF positive_score > 0 /\ negative_score > 0 THEN "MIXED"
                 ELSE "NEUTRAL"
        confidence ==
            CASE label = "POSITIVE" -> Min(950, 500 + total_score * 10)
              [] label = "NEGATIVE" -> Min(950, 500 + Abs(total_score) * 10)
              [] label = "MIXED" -> 600 + Min(positive_score, negative_score) * 10
              [] label = "NEUTRAL" -> 500 + token_count * 5
    IN  [sentiment |-> label, confidence |-> confidence]

(* lines 117-131: the label and its confidence (thousandths) from the two
   scores (tenths) and the number of words *)
Classify(positive_score, negative_score, token_count) ==
    LET total_score == positive_score - negative_score
        label == IF total_score > 10 THEN "POSITIVE"
                 ELSE IF total_score < -10 THEN "NEGATIVE"
                 ELSE IF positive_score > 0 /\ negative_score > 0 THEN "MIXED"
                 ELSE "NEUTRAL"
        confidence ==
            CASE label = "POSITIVE" -> Min(950, 500 + total_score * 10)
              [] label = "NEGATIVE" -> Min(950, 500 + Abs(total_score) * 10)
              [] label = "MIXED" -> 600 + Min(positive_score, negative_score) * 10
              [] label = "NEUTRAL" -> 500 + token_count * 5
    IN  [sentiment |-> label, confidence |-> confidence]

(* analyze_sentiment without the empty-text guard of lines 84-91 *)
analyze_sentiment_noguard(text) ==
    LET words == preprocess_text(text)
        scan == ScanWords(words, Len(words))
        verdict == Classify(scan.positive_score, scan.negative_score, Len(words))
    IN  [sentiment |-> verdict.sentiment, confidence |-> verdict.confidence,
         positive_score |-> scan.positive_score, negative_score |-> scan.negative_score,
         detected_keywords |->
             SubSeq(scan.detected_keywords, 1, Min(KeywordLimit, Len(scan.detected_keywords)))]

(* analyze_sentiment: confidence in thousandths, scores in tenths *)
analyze_sentiment(text) ==
    IF text = <<>>
    THEN [sentiment |-> "NEUTRAL", confidence |-> 0, positive_score |-> 0,
          negative_score |-> 0, detected_keywords |-> <<>>]
    ELSE LET words == preprocess_text(text)
             scan == ScanWords(words, Len(words))
             verdict == Classify(scan.positive_score, scan.negative_score, Len(words))
         IN  [sentiment |-> verdict.sentiment, confidence |-> verdict.confidence,
              positive_score |-> scan.positive_score, negative_score |-> scan.negative_score,
              detected_keywords |->
                  SubSeq(scan.detected_keywords, 1, Min(KeywordLimit, Len(scan.detected_keywords)))]

(* ---------------------- extract_business_keywords -------------------- *)
(* business_patterns in dict order; a term is the tuple of its words *)
Categories == <<"aws_services", "competitors", "technologies", "sentiment_context">>

business_patterns ==
    [c \in {"aws_services", "competitors", "technologies", "sentiment_context"} |->
        CASE c = "aws_services" ->
                 {<<"lambda">>, <<"api", "gateway">>, <<"dynamodb">>, <<"s3">>, <<"ec2">>,
                  <<"rds">>, <<"cloudfront">>, <<"sqs">>, <<"sns">>}
          [] c = "competitors" ->
                 {<<"azure">>, <<"google", "cloud">>, <<"gcp">>, <<"heroku">>,
                  <<"digital", "ocean">>, <<"vercel">>}
          [] c = "technologies" ->
                 {<<"serverless">>, <<"microservices">>, <<"docker">>, <<"kubernetes">>,
                  <<"terraform">>}
          [] c = "sentiment_context" ->
                 {<<"pricing">>, <<"cost">>, <<"performance">>, <<"speed">>,
                  <<"reliability">>, <<"support">>}]

(* re.findall(pattern, text_lower) from word i on: leftmost matches that do
   not overlap; words are single-space separated, so a term matches where
   its words stand as whole tokens *)
RECURSIVE findall(_, _, _)
findall(terms, words, i) ==
    IF i > Len(words) THEN <<>>
    ELSE IF <<words[i]>> \in terms
    THEN <<SubSeq(words, i, i)>> \o findall(terms, words, i + 1)
    ELSE IF i < Len(words) /\ <<words[i], words[i+1]>> \in terms
    THEN <<SubSeq(words, i, i + 1)>> \o findall(terms, words, i + 2)
    ELSE findall(terms, words, i + 1)

BusinessKeywordLimit == 15

(* the loop of lines 162-165 over the categories from the c-th on *)
RECURSIVE TagMatches(_, _)
TagMatches(text_lower, c) ==
    IF c > Len(Categories) THEN <<>>
    ELSE LET matches == findall(business_patterns[Categories[c]], text_lower, 1)
         IN  [k \in 1..Len(matches) |-> <<Categories[c], matches[k]>>]
             \o TagMatches(text_lower, c + 1)

(* the extractor that reports every match once, at its first place *)
extract_business_keywords_dedupe(text) ==
    LET text_lower == [k \in 1..Len(text) |-> Lower(text[k])]
        all == TagMatches(text_lower, 1)
        first == {k \in 1..Len(all) : \A j \in 1..(k-1) : all[j] # all[k]}
        detected_keywords == [k \in 1..Cardinality(first) |->
                                 all[CHOOSE j \in first :
                                        Cardinality({h \in first : h < j}) = k - 1]]
    IN  SubSeq(detected_keywords, 1, Min(BusinessKeywordLimit, Len(detected_keywords)))

(* extract_business_keywords: entries <<category, match>> *)
extract_business_keywords(text) ==
    LET text_lower == [k \in 1..Len(text) |-> Lower(text[k])]
        detected_keywords == TagMatches(text_lower, 1)
    IN  SubSeq(detected_keywords, 1, Min(BusinessKeywordLimit, Len(detected_keywords)))

(* ----------------------- items of the text feed ----------------------- *)
(* extract_post_data: the fields the pipeline reads.  created_timestamp is
   the sort key; post ids are numbered in creation order. *)
extract_post_data(post_id, title, selftext) ==
    [post_id |-> post_id, created_timestamp |-> post_id,
     title |-> title, selftext |-> selftext,
     processing_status |-> "raw",
     combined_text |-> title \o selftext]

(* extract_comment_data *)
extract_comment_data(post_id, body) ==
    [post_id |-> post_id, created_timestamp |-> post_id,
     body |-> body, processing_status |-> "raw", combined_text |-> body]

(* the item the feed hands to save_to_dynamodb for each post id: a post with
   text, a post with empty title and body, a comment, and an item of a
   foreign feed that carries neither combined_text nor selftext *)
FeedItem(i) ==
    LET k == ((i - 1) % 4) + 1
    IN  CASE k = 1 -> extract_post_data(i, <<"Very", "good">>, <<"good", "http://x.io/a">>)
          [] k = 2 -> extract_post_data(i, <<>>, <<>>)
          [] k = 3 -> extract_comment_data(i, <<"bad", "slow", "Bad">>)
          [] k = 4 -> [post_id |-> i, created_timestamp |-> i,
                       processing_status |-> "raw", title |-> <<>>]

(* --------------------------- the two tables --------------------------- *)
(* Table.put_item: the item replaces whatever the key held *)
put_item(table, key, item) ==
    [k \in DOMAIN table \cup {key} |-> IF k = key THEN item ELSE table[k]]

(* Table.update_item with a SET expression: the named attributes are
   assigned, the others kept; an absent key is created *)
update_item(table, key, sets) ==
    LET old == IF key \in DOMAIN table THEN table[key]
               ELSE [post_id |-> key, created_timestamp |-> key]
    IN  put_item(table, key, sets @@ old)

RECURSIVE SortedSeq(_)
SortedSeq(S) ==
    IF S = {} THEN <<>>
    ELSE LET m == CHOOSE x \in S : \A y \in S : x <= y
         IN  <<m>> \o SortedSeq(S \ {m})

(* the index query without its key condition on processing_status *)
query_any_status(table, status, limit) ==
    LET ids == SortedSeq(DOMAIN table)
    IN  [n \in 1..Min(limit, Len(ids)) |-> table[ids[n]]]

(* query on processing-status-index: the items with that status in
   created_timestamp order, at most Limit of them *)
query_by_status(table, status, limit) ==
    LET ids == SortedSeq({k \in DOMAIN table : table[k].processing_status = status})
    IN  [n \in 1..Min(limit, Len(ids)) |-> table[ids[n]]]

(* query on the table's partition key post_id *)
query_by_post_id(table, post_id) ==
    IF post_id \in DOMAIN table THEN <<table[post_id]>> ELSE <<>>

(* ----------------------- process_post_sentiment ----------------------- *)
InputTextLimit == 1000

(* lines 354-360: combined_text, or title + " " + selftext stripped *)
AnalysisText(post) ==
    LET combined_text == Get(post, "combined_text", <<>>)
    IN  IF combined_text = <<>>
        THEN Get(post, "title", <<>>) \o Get(post, "selftext", <<>>)
        ELSE combined_text

(* lines 362-392: the analysis record built for a post under a fresh id *)
process_post_sentiment(post, analysis_id) ==
    LET combined_text == AnalysisText(post)
        sentiment_result == analyze_sentiment(combined_text)
    IN  [analysis_id |-> analysis_id,
         original_post_id |-> post.post_id,
         input_text |-> SubSeq(combined_text, 1, Min(InputTextLimit, Len(combined_text))),
         sentiment |-> sentiment_result.sentiment,
         confidence_score |-> sentiment_result.confidence,
         positive_score |-> sentiment_result.positive_score,
         negative_score |-> sentiment_result.negative_score,
         detected_keywords |-> sentiment_result.detected_keywords,
         business_keywords |-> extract_business_keywords(combined_text),
         subreddit |-> Get(post, "subreddit", "unknown")]

(* ------------------------------ state --------------------------------- *)
VARIABLES
    rawTable,           \* reddit-raw-posts: post_id -> item
    processedTable,     \* reddit-processed-sentiment: analysis_id -> record
    nextId,             \* supply of fresh uuid4 values
    invocations,        \* Lambda invocations started so far
    pc,                 \* per invocation: its position in lambda_func.py
    event,              \* per invocation: the event it was called with
    unprocessed_posts,  \* per invocation: the fetched items (snapshots)
    idx,                \* per invocation: loop position in unprocessed_posts
    processed_count,
    analysis_ids,
    exc,                \* per invocation: the exception caught or raised
    result,             \* per invocation: the dict process_* returned
    faults,             \* history: store calls that raised in this invocation
    call,               \* the function called directly, with its argument
    rets,               \* what its successive applications returned
    job_status,         \* fastapi_app.py: job_id -> status entry
    task,               \* per job id: the run_scraping_job task and its place
    now,                \* the wall clock, in seconds
    response,           \* what the last request handler answered
    feedback_table,     \* src/*.py: the feedback table, pk -> item
    stream              \* stream records of the feedback table not yet delivered

vars == <<rawTable, processedTable, nextId, invocations, pc, event,
          unprocessed_posts, idx, processed_count, analysis_ids, exc, result,
          faults, call, rets, job_status, task, now, response, feedback_table,
          stream>>

(* the state of the API server and of the feedback pipeline *)
server == <<job_status, task, now, response, feedback_table, stream>>

pipeline == <<rawTable, processedTable, nextId, invocations, pc, event,
              unprocessed_posts, idx, processed_count, analysis_ids, exc, result,
              faults>>

locals == <<unprocessed_posts, idx, processed_count, analysis_ids>>

NoEvent == [processing_mode |-> "none"]
NoExc == [type |-> "None", msg |-> ""]
NoResult == [none |-> TRUE]
NoCall == [fn |-> "none"]

MissingPostId == [type |-> "ValueError", msg |-> "post_id is required for single post processing"]
PostNotFound(post_id) ==
    [type |-> "ValueError", msg |-> "Post not found in raw posts table", post_id |-> post_id]
(* a store call that raises (botocore ClientError and the like) *)
StoreError(op) == [type |-> "ClientError", msg |-> op]

Events ==
    {[processing_mode |-> "single", post_id |-> p] : p \in PostIds}
    \cup {[processing_mode |-> "single"]}
    \cup {[processing_mode |-> "batch", batch_size |-> n] : n \in BatchSizes}

(* event.get('processing_mode', 'batch') *)
ProcessingMode(ev) == Get(ev, "processing_mode", "batch")

(* cold start: empty tables, no invocation running *)
ColdStart ==
    /\ rawTable = <<>>
    /\ processedTable = <<>>
    /\ nextId = 1
    /\ invocations = 0
    /\ pc = [w \in Workers |-> "idle"]
    /\ event = [w \in Workers |-> NoEvent]
    /\ unprocessed_posts = [w \in Workers |-> <<>>]
    /\ idx = [w \in Workers |-> 0]
    /\ processed_count = [w \in Workers |-> 0]
    /\ analysis_ids = [w \in Workers |-> <<>>]
    /\ exc = [w \in Workers |-> NoExc]
    /\ result = [w \in Workers |-> NoResult]
    /\ faults = [w \in Workers |-> 0]
    /\ job_status = <<>>
    /\ task = <<>>
    /\ now = 0
    /\ response = NoResult
    /\ feedback_table = <<>>
    /\ stream = <<>>

Init ==
    /\ ColdStart
    /\ call = NoCall
    /\ rets = <<>>

RecordsFor(table, post_id) == {a \in DOMAIN table : table[a].original_post_id = post_id}

(* ------------------------- main.py: ingestion ------------------------- *)
(* save_to_dynamodb(items, raw table): every item is put; a batch that
   raises is logged and skipped, so only the items in written reach the
   table *)
save_to_dynamodb(items, written) ==
    /\ UNCHANGED <<call, rets, server>>
    /\ written \subseteq items
    /\ rawTable' = [k \in DOMAIN rawTable \cup written |->
                        IF k \in written THEN FeedItem(k) ELSE rawTable[k]]
    /\ UNCHANGED <<processedTable, nextId, invocations, pc, event, locals, exc,
                   result, faults>>

(* ---------------------- lambda_func.py: handler ----------------------- *)
(* lambda_handler, lines 183-203: read the mode and dispatch *)
lambda_handler(w, ev) ==
    /\ UNCHANGED <<call, rets, server>>
    /\ pc[w] = "idle"
    /\ invocations < MaxInvocations
    /\ invocations' = invocations + 1
    /\ event' = [event EXCEPT ![w] = ev]
    /\ pc' = [pc EXCEPT ![w] = IF ProcessingMode(ev) = "single"
                                THEN "single_query" ELSE "batch_query"]
    /\ UNCHANGED <<rawTable, processedTable, nextId, locals, exc, result, faults>>

(* lambda_handler, lines 205-226: the response for the caller *)
Response(w) ==
    IF pc[w] = "done"
    THEN [statusCode |-> 200, results |-> result[w]]
    ELSE [statusCode |-> 500, message |-> exc[w].msg]

(* the invocation ends and its container is free again *)
lambda_return(w) ==
    /\ UNCHANGED <<call, rets, server>>
    /\ pc[w] \in {"done", "raised"}
    /\ pc' = [pc EXCEPT ![w] = "idle"]
    /\ event' = [event EXCEPT ![w] = NoEvent]
    /\ unprocessed_posts' = [unprocessed_posts EXCEPT ![w] = <<>>]
    /\ idx' = [idx EXCEPT ![w] = 0]
    /\ processed_count' = [processed_count EXCEPT ![w] = 0]
    /\ analysis_ids' = [analysis_ids EXCEPT ![w] = <<>>]
    /\ exc' = [exc EXCEPT ![w] = NoExc]
    /\ result' = [result EXCEPT ![w] = NoResult]
    /\ faults' = [faults EXCEPT ![w] = 0]
    /\ UNCHANGED <<rawTable, processedTable, nextId, invocations>>

(* the exception is logged and the function returns normally *)
Raise_swallowed(w, e) ==
    /\ pc' = [pc EXCEPT ![w] = "done"]
    /\ exc' = [exc EXCEPT ![w] = NoExc]

(* raise e out of process_single_post / process_batch_posts *)
Raise(w, e) ==
    /\ pc' = [pc EXCEPT ![w] = "raised"]
    /\ exc' = [exc EXCEPT ![w] = e]

Fault(w) == faults' = [faults EXCEPT ![w] = @ + 1]

(* ------------------------ process_single_post ------------------------- *)
(* process_single_post that records the status before it looks at
   response['Items']: an unknown post_id is upserted as an error item *)
process_single_query_upsert(w, ok) ==
    /\ UNCHANGED <<call, rets, server>>
    /\ pc[w] = "single_query"
    /\ LET post_id == Get(event[w], "post_id", NoPostId)
       IN  IF post_id = NoPostId
           THEN /\ Raise(w, MissingPostId)
                /\ UNCHANGED <<rawTable, locals, faults>>
           ELSE   IF ~ok
                  THEN /\ Raise(w, StoreError("query"))
                       /\ Fault(w)
                       /\ UNCHANGED <<rawTable, locals>>
                  ELSE LET items == query_by_post_id(rawTable, post_id)
                       IN  IF items = <<>>
                           THEN /\ Raise(w, PostNotFound(post_id))
                                /\ rawTable' = update_item(rawTable, post_id,
                                                  [processing_status |-> "error"])
                                /\ UNCHANGED <<locals, faults>>
                           ELSE /\ unprocessed_posts' =
                                       [unprocessed_posts EXCEPT ![w] = <<items[1]>>]
                                /\ idx' = [idx EXCEPT ![w] = 1]
                                /\ pc' = [pc EXCEPT ![w] = "single_process"]
                                /\ UNCHANGED <<rawTable, processed_count, analysis_ids,
                                               exc, faults>>
    /\ UNCHANGED <<processedTable, nextId, invocations, event, result>>

(* lines 237-250: validate the event and fetch the post *)
process_single_query(w, ok) ==
    /\ UNCHANGED <<call, rets, server>>
    /\ pc[w] = "single_query"
    /\ LET post_id == Get(event[w], "post_id", NoPostId)
       IN  IF post_id = NoPostId
           THEN /\ Raise(w, MissingPostId)
                /\ UNCHANGED <<locals, faults>>
           ELSE   IF ~ok
                  THEN /\ Raise(w, StoreError("query"))
                       /\ Fault(w)
                       /\ UNCHANGED <<locals>>
                  ELSE LET items == query_by_post_id(rawTable, post_id)
                       IN  IF items = <<>>
                           THEN /\ Raise(w, PostNotFound(post_id))
                                /\ UNCHANGED <<locals, faults>>
                           ELSE /\ unprocessed_posts' =
                                       [unprocessed_posts EXCEPT ![w] = <<items[1]>>]
                                /\ idx' = [idx EXCEPT ![w] = 1]
                                /\ pc' = [pc EXCEPT ![w] = "single_process"]
                                /\ UNCHANGED <<processed_count, analysis_ids, exc, faults>>
    /\ UNCHANGED <<rawTable, processedTable, nextId, invocations, event, result>>

(* line 253: process_post_sentiment(post, ...), whose last step is put_item *)
process_single_sentiment(w, ok) ==
    /\ UNCHANGED <<call, rets, server>>
    /\ pc[w] = "single_process"
    /\ LET post == unprocessed_posts[w][1]
       IN    IF ok
             THEN /\ processedTable' =
                        put_item(processedTable, nextId, process_post_sentiment(post, nextId))
                  /\ nextId' = nextId + 1
                  /\ analysis_ids' = [analysis_ids EXCEPT ![w] = <<nextId>>]
                  /\ pc' = [pc EXCEPT ![w] = "single_mark"]
                  /\ UNCHANGED <<exc, faults>>
             ELSE /\ Raise(w, StoreError("put_item"))
                  /\ Fault(w)
                  /\ UNCHANGED <<processedTable, nextId, analysis_ids>>
    /\ UNCHANGED <<rawTable, invocations, event, unprocessed_posts, idx,
                   processed_count, result>>

(* lines 256-268: set processing_status and return *)
process_single_mark(w, ok) ==
    /\ UNCHANGED <<call, rets, server>>
    /\ pc[w] = "single_mark"
    /\ LET post == unprocessed_posts[w][1]
       IN    IF ok
             THEN /\ rawTable' = update_item(rawTable, post.post_id,
                                             [processing_status |-> "processed"])
                  /\ pc' = [pc EXCEPT ![w] = "done"]
                  /\ result' = [result EXCEPT ![w] =
                                   [processed_posts |-> 1, analysis_id |-> analysis_ids[w][1]]]
                  /\ UNCHANGED <<exc, faults>>
             ELSE /\ Raise(w, StoreError("update_item"))
                  /\ Fault(w)
                  /\ UNCHANGED <<rawTable, result>>
    /\ UNCHANGED <<processedTable, nextId, invocations, event, locals>>

(* ------------------------ process_batch_posts ------------------------- *)
(* lines 281-299: query the raw items, return at once when there is none *)
process_batch_query(w, ok) ==
    /\ UNCHANGED <<call, rets, server>>
    /\ pc[w] = "batch_query"
    /\   IF ~ok
         THEN /\ Raise(w, StoreError("query"))
              /\ Fault(w)
              /\ UNCHANGED <<locals, result>>
         ELSE LET posts == query_by_status(rawTable, "raw",
                                            Get(event[w], "batch_size", DefaultBatchSize))
              IN  IF posts = <<>>
                  THEN /\ pc' = [pc EXCEPT ![w] = "done"]
                       /\ result' = [result EXCEPT ![w] =
                                        [processed_posts |-> 0,
                                         message |-> "No unprocessed posts found"]]
                       /\ UNCHANGED <<locals, exc, faults>>
                  ELSE /\ unprocessed_posts' = [unprocessed_posts EXCEPT ![w] = posts]
                       /\ idx' = [idx EXCEPT ![w] = 1]
                       /\ processed_count' = [processed_count EXCEPT ![w] = 0]
                       /\ analysis_ids' = [analysis_ids EXCEPT ![w] = <<>>]
                       /\ pc' = [pc EXCEPT ![w] = "batch_process"]
                       /\ UNCHANGED <<exc, faults, result>>
    /\ UNCHANGED <<rawTable, processedTable, nextId, invocations, event>>

(* the for loop moves to the next post, or lines 339-343 build the result *)
NextPost(w, count) ==
    IF idx[w] < Len(unprocessed_posts[w])
    THEN /\ idx' = [idx EXCEPT ![w] = @ + 1]
         /\ pc' = [pc EXCEPT ![w] = "batch_process"]
         /\ UNCHANGED result
    ELSE /\ pc' = [pc EXCEPT ![w] = "done"]
         /\ result' = [result EXCEPT ![w] =
                          [processed_posts |-> count,
                           analysis_ids |-> analysis_ids[w],
                           total_found |-> Len(unprocessed_posts[w])]]
         /\ UNCHANGED idx

(* the loop body with a put_item whose failure is swallowed: the post goes
   on to be marked processed without an analysis record *)
process_batch_sentiment_swallow(w, ok) ==
    /\ UNCHANGED <<call, rets, server>>
    /\ pc[w] = "batch_process"
    /\ LET post == unprocessed_posts[w][idx[w]]
       IN    IF ok
             THEN /\ processedTable' =
                        put_item(processedTable, nextId, process_post_sentiment(post, nextId))
                  /\ nextId' = nextId + 1
                  /\ analysis_ids' = [analysis_ids EXCEPT ![w] = Append(@, nextId)]
                  /\ UNCHANGED faults
             ELSE /\ Fault(w)
                  /\ UNCHANGED <<processedTable, nextId, analysis_ids>>
    /\ pc' = [pc EXCEPT ![w] = "batch_mark"]
    /\ UNCHANGED <<rawTable, invocations, event, unprocessed_posts, idx,
                   processed_count, result, exc>>

(* the loop body with the analysis record stored under the post's id
   instead of a fresh uuid4 *)
process_batch_sentiment_rekey(w, ok) ==
    /\ UNCHANGED <<call, rets, server>>
    /\ pc[w] = "batch_process"
    /\ LET post == unprocessed_posts[w][idx[w]]
       IN    IF ok
             THEN /\ processedTable' = put_item(processedTable, post.post_id,
                                                process_post_sentiment(post, post.post_id))
                  /\ nextId' = nextId + 1
                  /\ analysis_ids' = [analysis_ids EXCEPT ![w] = Append(@, post.post_id)]
                  /\ pc' = [pc EXCEPT ![w] = "batch_mark"]
                  /\ UNCHANGED <<exc, faults>>
             ELSE /\ exc' = [exc EXCEPT ![w] = StoreError("put_item")]
                  /\ pc' = [pc EXCEPT ![w] = "batch_error"]
                  /\ Fault(w)
                  /\ UNCHANGED <<processedTable, nextId, analysis_ids>>
    /\ UNCHANGED <<rawTable, invocations, event, unprocessed_posts, idx,
                   processed_count, result>>

(* lines 303-306: process_post_sentiment inside the try *)
process_batch_sentiment(w, ok) ==
    /\ UNCHANGED <<call, rets, server>>
    /\ pc[w] = "batch_process"
    /\ LET post == unprocessed_posts[w][idx[w]]
       IN    IF ok
             THEN /\ processedTable' =
                        put_item(processedTable, nextId, process_post_sentiment(post, nextId))
                  /\ nextId' = nextId + 1
                  /\ analysis_ids' = [analysis_ids EXCEPT ![w] = Append(@, nextId)]
                  /\ pc' = [pc EXCEPT ![w] = "batch_mark"]
                  /\ UNCHANGED <<exc, faults>>
             ELSE /\ exc' = [exc EXCEPT ![w] = StoreError("put_item")]
                  /\ pc' = [pc EXCEPT ![w] = "batch_error"]
                  /\ Fault(w)
                  /\ UNCHANGED <<processedTable, nextId, analysis_ids>>
    /\ UNCHANGED <<rawTable, invocations, event, unprocessed_posts, idx,
                   processed_count, result>>

(* lines 308-321: mark the post processed and count it *)
process_batch_mark(w, ok) ==
    /\ UNCHANGED <<call, rets, server>>
    /\ pc[w] = "batch_mark"
    /\ LET post == unprocessed_posts[w][idx[w]]
       IN    IF ok
             THEN /\ rawTable' = update_item(rawTable, post.post_id,
                                    [processing_status |-> "processed", processed_at |-> "now"])
                  /\ processed_count' = [processed_count EXCEPT ![w] = @ + 1]
                  /\ NextPost(w, processed_count[w] + 1)
                  /\ UNCHANGED <<exc, faults>>
             ELSE /\ exc' = [exc EXCEPT ![w] = StoreError("update_item")]
                  /\ pc' = [pc EXCEPT ![w] = "batch_error"]
                  /\ Fault(w)
                  /\ UNCHANGED <<rawTable, processed_count, idx, result>>
    /\ UNCHANGED <<processedTable, nextId, invocations, event, unprocessed_posts,
                   analysis_ids>>

(* the except branch followed by a break: the rest of the batch is left *)
process_batch_error_abort(w, ok) ==
    /\ UNCHANGED <<call, rets, server>>
    /\ pc[w] = "batch_error"
    /\ LET post == unprocessed_posts[w][idx[w]]
       IN    IF ok
             THEN /\ rawTable' = update_item(rawTable, post.post_id,
                                    [processing_status |-> "error",
                                     error_message |-> exc[w].msg])
                  /\ pc' = [pc EXCEPT ![w] = "done"]
                  /\ result' = [result EXCEPT ![w] =
                                   [processed_posts |-> processed_count[w],
                                    analysis_ids |-> analysis_ids[w],
                                    total_found |-> Len(unprocessed_posts[w])]]
                  /\ exc' = [exc EXCEPT ![w] = NoExc]
                  /\ UNCHANGED <<idx, faults>>
             ELSE /\ Raise(w, StoreError("update_item"))
                  /\ Fault(w)
                  /\ UNCHANGED <<rawTable, idx, result>>
    /\ UNCHANGED <<processedTable, nextId, invocations, event, unprocessed_posts,
                   processed_count, analysis_ids>>

(* lines 323-337: the except branch marks the post error; its own
   update_item is outside any try *)
process_batch_error(w, ok) ==
    /\ UNCHANGED <<call, rets, server>>
    /\ pc[w] = "batch_error"
    /\ LET post == unprocessed_posts[w][idx[w]]
       IN    IF ok
             THEN /\ rawTable' = update_item(rawTable, post.post_id,
                                    [processing_status |-> "error",
                                     error_message |-> exc[w].msg])
                  /\ NextPost(w, processed_count[w])
                  /\ exc' = [exc EXCEPT ![w] = NoExc]
                  /\ UNCHANGED faults
             ELSE /\ Raise(w, StoreError("update_item"))
                  /\ Fault(w)
                  /\ UNCHANGED <<rawTable, idx, result>>
    /\ UNCHANGED <<processedTable, nextId, invocations, event, unprocessed_posts,
                   processed_count, analysis_ids>>

(* -------------------------- specifications ---------------------------- *)
(* any interleaving of invocations and scraper writes; every store call
   may raise *)
Next ==
    \/ \E items \in SUBSET PostIds : \E written \in SUBSET items :
          items # {} /\ save_to_dynamodb(items, written)
    \/ \E w \in Workers, ev \in Events : lambda_handler(w, ev)
    \/ \E w \in Workers, ok \in BOOLEAN : process_single_query(w, ok)
    \/ \E w \in Workers, ok \in BOOLEAN : process_single_sentiment(w, ok)
    \/ \E w \in Workers, ok \in BOOLEAN : process_single_mark(w, ok)
    \/ \E w \in Workers, ok \in BOOLEAN : process_batch_query(w, ok)
    \/ \E w \in Workers, ok \in BOOLEAN : process_batch_sentiment(w, ok)
    \/ \E w \in Workers, ok \in BOOLEAN : process_batch_mark(w, ok)
    \/ \E w \in Workers, ok \in BOOLEAN : process_batch_error(w, ok)
    \/ \E w \in Workers : lambda_return(w)

Spec == Init /\ [][Next]_vars

(* the reference model of the design: one invocation at a time, and the
   scraper writes only between invocations *)
AllIdle == \A w \in Workers : pc[w] = "idle"

NextSeq ==
    \/ \E items \in SUBSET PostIds : \E written \in SUBSET items :
          items # {} /\ AllIdle /\ save_to_dynamodb(items, written)
    \/ \E w \in Workers, ev \in Events : AllIdle /\ lambda_handler(w, ev)
    \/ \E w \in Workers, ok \in BOOLEAN : process_single_query(w, ok)
    \/ \E w \in Workers, ok \in BOOLEAN : process_single_sentiment(w, ok)
    \/ \E w \in Workers, ok \in BOOLEAN : process_single_mark(w, ok)
    \/ \E w \in Workers, ok \in BOOLEAN : process_batch_query(w, ok)
    \/ \E w \in Workers, ok \in BOOLEAN : process_batch_sentiment(w, ok)
    \/ \E w \in Workers, ok \in BOOLEAN : process_batch_mark(w, ok)
    \/ \E w \in Workers, ok \in BOOLEAN : process_batch_error(w, ok)
    \/ \E w \in Workers : lambda_return(w)

SpecSeq == Init /\ [][NextSeq]_vars

(* concurrent invocations over a healthy store, every item submitted once:
   the scraper writes only new posts, no store call raises, and single mode
   is asked only for a post that has no analysis record and that no other
   single invocation is working on *)
FirstRequest(w, ev) ==
    ProcessingMode(ev) = "single" =>
        /\ "post_id" \in DOMAIN ev
        /\ RecordsFor(processedTable, ev.post_id) = {}
        /\ \A v \in Workers \ {w} : Get(event[v], "post_id", NoPostId) # ev.post_id

NextOnce ==
    \/ \E items \in SUBSET PostIds :
          items # {} /\ items \cap DOMAIN rawTable = {} /\ save_to_dynamodb(items, items)
    \/ \E w \in Workers, ev \in Events : FirstRequest(w, ev) /\ lambda_handler(w, ev)
    \/ \E w \in Workers : process_single_query(w, TRUE)
    \/ \E w \in Workers : process_single_sentiment(w, TRUE)
    \/ \E w \in Workers : process_single_mark(w, TRUE)
    \/ \E w \in Workers : process_batch_query(w, TRUE)
    \/ \E w \in Workers : process_batch_sentiment(w, TRUE)
    \/ \E w \in Workers : process_batch_mark(w, TRUE)
    \/ \E w \in Workers : lambda_return(w)

SpecOnce == Init /\ [][NextOnce]_vars

(* ------------------------------ claims -------------------------------- *)
Status(i) == rawTable[i].processing_status
IsBatch(w) == pc[w] # "idle" /\ ProcessingMode(event[w]) # "single"
IsSingle(w) == pc[w] # "idle" /\ ProcessingMode(event[w]) = "single"
FetchedIds(w) == {unprocessed_posts[w][n].post_id : n \in 1..Len(unprocessed_posts[w])}

(* no combined text, no title and no body, each empty or missing *)
NoExtractableText(post) ==
    /\ Get(post, "combined_text", <<>>) = <<>>
    /\ Get(post, "title", <<>>) = <<>>
    /\ Get(post, "selftext", <<>>) = <<>>

(* C1: when a process_batch call returns and exactly one exception was raised
   in it, while one fetched item was being processed, that item is in status
   error carrying the exception's message, each of the other k-1 fetched
   items is in status processed, and processed_posts is k-1. *)
C1_FailureIsolation ==
    \A w \in Workers :
        (pc[w] = "done" /\ IsBatch(w) /\ faults[w] = 1) =>
            LET posts == unprocessed_posts[w]
                k == Len(posts)
                message == IF Len(analysis_ids[w]) = k THEN "update_item" ELSE "put_item"
            IN  /\ result[w].processed_posts = k - 1
                /\ \E n \in 1..k :
                      /\ Status(posts[n].post_id) = "error"
                      /\ Get(rawTable[posts[n].post_id], "error_message", "") = message
                      /\ \A m \in (1..k) \ {n} : Status(posts[m].post_id) = "processed"

C1_Witness ==
    \E w \in Workers :
        /\ pc[w] = "done" /\ IsBatch(w) /\ faults[w] = 1
        /\ Len(unprocessed_posts[w]) = 2
        /\ result[w].processed_posts = 1

(* C2: every item in status processed has an analysis record that references
   it, and an invocation that is about to write status processed for a post
   has itself already stored the analysis record of that post. *)
C2_ProcessedHasAnalysis ==
    /\ \A i \in DOMAIN rawTable :
          Status(i) = "processed" => RecordsFor(processedTable, i) # {}
    /\ \A w \in Workers :
          pc[w] \in {"batch_mark", "single_mark"} =>
              /\ Len(analysis_ids[w]) > 0
              /\ LET a == analysis_ids[w][Len(analysis_ids[w])]
                 IN  /\ a \in DOMAIN processedTable
                     /\ processedTable[a].original_post_id =
                            unprocessed_posts[w][idx[w]].post_id

C2_Witness ==
    \E i \in DOMAIN rawTable :
        Status(i) = "processed" /\ RecordsFor(processedTable, i) # {}

(* C3: once an item is processed or error, no step of the system changes its
   processing status. *)
C3_StatusOneDirectional ==
    [][\A i \in DOMAIN rawTable :
          Status(i) \in {"processed", "error"} =>
              rawTable'[i].processing_status = Status(i)]_vars

(* C4: process_batch raises only when the initial fetch of raw items failed,
   never after items were fetched. *)
C4_BatchRaisesOnlyOnFetch ==
    \A w \in Workers :
        (IsBatch(w) /\ pc[w] = "raised") =>
            (unprocessed_posts[w] = <<>> /\ exc[w] = StoreError("query"))

(* C5: a process_single call whose post_id is missing or not in the raw table
   raises at the fetch (a ValueError whenever the store answered), writes to
   neither table, and ends without any further step. *)
C5_NotFoundWritesNothing ==
    [][\A w \in Workers :
          /\ (/\ pc[w] = "single_query"
              /\ pc'[w] # "single_query"
              /\ Get(event[w], "post_id", NoPostId) \notin DOMAIN rawTable)
             => /\ pc'[w] = "raised"
                /\ faults'[w] = faults[w] => exc'[w].type = "ValueError"
                /\ rawTable' = rawTable
                /\ processedTable' = processedTable
          /\ (pc[w] = "raised" /\ pc'[w] # "raised")
             => /\ pc'[w] = "idle"
                /\ rawTable' = rawTable
                /\ processedTable' = processedTable]_vars

C5_Witness ==
    \E w \in Workers :
        /\ pc[w] = "raised" /\ IsSingle(w)
        /\ "post_id" \in DOMAIN event[w]
        /\ exc[w] = PostNotFound(event[w].post_id)
        /\ DOMAIN rawTable # {}

(* C6: when process_single raises after it fetched the post, the post is in
   status error and carries the exception's message. *)
C6_SingleMarksError ==
    \A w \in Workers :
        (IsSingle(w) /\ pc[w] = "raised" /\ unprocessed_posts[w] # <<>>) =>
            LET i == unprocessed_posts[w][1].post_id
            IN  /\ Status(i) = "error"
                /\ Get(rawTable[i], "error_message", "") = exc[w].msg

C8_BatchSelectsOnlyRaw ==
    [][\A w \in Workers :
          /\ (pc[w] = "batch_query" /\ pc'[w] # "batch_query")
             => /\ \A n \in 1..Len(unprocessed_posts'[w]) :
                      Status(unprocessed_posts'[w][n].post_id) = "raw"
                /\ rawTable' = rawTable
                /\ processedTable' = processedTable
                /\ (\A i \in DOMAIN rawTable : Status(i) # "raw")
                      => pc'[w] \in {"done", "raised"} /\ unprocessed_posts'[w] = <<>>
          /\ (pc[w] = "done" /\ pc'[w] # "done")
             => pc'[w] = "idle" /\ rawTable' = rawTable /\ processedTable' = processedTable
          /\ (IsBatch(w) /\ (pc'[w] # pc[w] \/ idx'[w] # idx[w]))
             => \A i \in DOMAIN rawTable \ FetchedIds(w) :
                   /\ rawTable'[i] = rawTable[i]
                   /\ RecordsFor(processedTable', i) = RecordsFor(processedTable, i)]_vars

C8_Witness ==
    \E w \in Workers :
        /\ pc[w] = "done" /\ IsBatch(w)
        /\ "message" \in DOMAIN result[w]
        /\ \E i \in DOMAIN rawTable : Status(i) = "error"

(* C9: when every item is submitted for processing only once, no two analysis
   records reference the same source item. *)
C9_AtMostOneAnalysis ==
    \A i \in PostIds : Cardinality(RecordsFor(processedTable, i)) <= 1

(* C10: the result of process_batch(limit = N) has total_found <= N, and when
   the store held M < N items at the fetch, all of them raw, total_found = M. *)
C10_TotalFoundWithinLimit ==
    \A w \in Workers :
        (pc[w] = "done" /\ IsBatch(w)) =>
            LET N == Get(event[w], "batch_size", DefaultBatchSize)
                M == Cardinality(DOMAIN rawTable)
                allRaw == \A i \in DOMAIN rawTable \ FetchedIds(w) : Status(i) = "raw"
            IN  /\ "total_found" \in DOMAIN result[w]
                /\ result[w].total_found <= N
                /\ (M < N /\ allRaw) => result[w].total_found = M

(* C11: every result process_batch returns reports processed_posts and
   total_found together with analysis_ids, also when the fetch found no raw
   item, and it has no field of per-item error details. *)
C11_BatchResultShape ==
    \A w \in Workers :
        (pc[w] = "done" /\ IsBatch(w)) =>
            /\ {"processed_posts", "total_found", "analysis_ids"} \subseteq DOMAIN result[w]
            /\ DOMAIN result[w] \cap {"errors", "error_details", "failed"} = {}

(* ------------------- the analyzer's methods, called directly ---------- *)
(* all token sequences over vocab of length at most n *)
RECURSIVE TextsUpTo(_, _)
TextsUpTo(vocab, n) ==
    IF n = 0 THEN {<<>>}
    ELSE LET shorter == TextsUpTo(vocab, n - 1)
         IN  shorter \cup {Append(t, tok) : t \in shorter, tok \in vocab}

RECURSIVE Repeat(_, _)
Repeat(pattern, n) == IF n = 0 THEN <<>> ELSE pattern \o Repeat(pattern, n - 1)

(* the docstring-style example sentence *)
ExampleText == <<"This", "is", "absolutely", "amazing", "and", "I", "love", "it">>

ScorerVocab == {"good", "love", "bad", "very", "extremely", "the", "GOOD", "http://x.io/a"}
ScorerPatterns == {<<"good", "bad">>, <<"love">>, <<"extremely", "good", "extremely", "bad">>,
                   <<"the", "fast", "bad">>}

(* the texts handed to analyze_sentiment: every short text over the
   vocabulary, long texts made of a repeated pattern, and the example *)
ScorerTexts ==
    TextsUpTo(ScorerVocab, MaxTextLen)
    \cup {Repeat(p, n) : p \in ScorerPatterns, n \in 1..MaxRepeat}
    \cup {ExampleText}

ExtractorVocab == {"Lambda", "lambda", "api", "gateway", "azure", "docker", "cost", "the"}
ExtractorPatterns == {<<"cost", "Lambda", "Azure">>, <<"api", "gateway", "docker", "s3">>}

(* the texts handed to extract_business_keywords *)
ExtractorTexts ==
    TextsUpTo(ExtractorVocab, MaxTextLen)
    \cup {Repeat(p, n) : p \in ExtractorPatterns, n \in 1..MaxRepeat}

InitAnalyzer ==
    /\ ColdStart
    /\ call \in {[fn |-> "analyze_sentiment", text |-> t] : t \in ScorerTexts}
              \cup {[fn |-> "extract_business_keywords", text |-> t] : t \in ExtractorTexts}
    /\ rets = <<>>

(* analyzer.analyze_sentiment(text) *)
call_analyze_sentiment ==
    /\ call.fn = "analyze_sentiment"
    /\ rets = <<>>
    /\ rets' = <<analyze_sentiment(call.text)>>
    /\ UNCHANGED <<call, pipeline, server>>

(* analyzer.extract_business_keywords(text) *)
call_extract_business_keywords ==
    /\ call.fn = "extract_business_keywords"
    /\ rets = <<>>
    /\ rets' = <<extract_business_keywords(call.text)>>
    /\ UNCHANGED <<call, pipeline, server>>

NextAnalyzer ==
    \/ call_analyze_sentiment
    \/ call_extract_business_keywords

SpecAnalyzer == InitAnalyzer /\ [][NextAnalyzer]_vars

Scored == call.fn = "analyze_sentiment" /\ rets # <<>>
Extracted == call.fn = "extract_business_keywords" /\ rets # <<>>

(* C12: every result of the scorer has a confidence within [0, 1], whatever
   the text and whichever of the four labels it gets. *)
C12_ConfidenceInUnitInterval ==
    Scored => (rets[1].confidence >= 0 /\ rets[1].confidence <= 1000)

(* C13: for a non-empty text the label follows, in this order of precedence,
   from net = positive_score - negative_score: net > 1.0 is POSITIVE with
   confidence min(0.95, 0.5 + net/10); net < -1.0 is NEGATIVE with confidence
   min(0.95, 0.5 + |net|/10); otherwise both scores > 0 is MIXED with
   confidence 0.6 + min(positive_score, negative_score)/10; otherwise NEUTRAL
   with confidence 0.5 + token_count/200. *)
C13_ClassificationByPrecedence ==
    (Scored /\ call.text # <<>>) =>
        LET r == rets[1]
            p == r.positive_score
            n == r.negative_score
            net == p - n
            token_count == Len(preprocess_text(call.text))
            capped(c) == IF c > 950 THEN 950 ELSE c
            smaller == IF p < n THEN p ELSE n
        IN  IF net > 10
            THEN r.sentiment = "POSITIVE" /\ r.confidence = capped(500 + net * 10)
            ELSE IF net < -10
            THEN r.sentiment = "NEGATIVE" /\ r.confidence = capped(500 + (n - p) * 10)
            ELSE IF p > 0 /\ n > 0
            THEN r.sentiment = "MIXED" /\ r.confidence = 600 + smaller * 10
            ELSE r.sentiment = "NEUTRAL" /\ r.confidence = 500 + token_count * 5

(* one positive and one negative word, net = 0: MIXED *)
C13_Witness ==
    /\ Scored
    /\ rets[1].positive_score = 10
    /\ rets[1].negative_score = 10
    /\ rets[1].sentiment = "MIXED"
    /\ rets[1].confidence = 700

(* what the sentiment word at position i adds to its score, in tenths: the
   factor of the intensifier right before it, 1.0 without one *)
Contribution(words, i) ==
    IF i > 1 /\ words[i-1] \in DOMAIN intensifiers THEN intensifiers[words[i-1]] ELSE 10

RECURSIVE SumContributions(_, _)
SumContributions(words, positions) ==
    IF positions = {} THEN 0
    ELSE LET i == CHOOSE j \in positions : TRUE
         IN  Contribution(words, i) + SumContributions(words, positions \ {i})

(* C14: a sentiment word whose immediately preceding token is an intensifier
   adds that intensifier's factor to its score instead of 1.0, and a sentiment
   word after any other token, or after none, adds exactly 1.0; the example
   sentence gets positive_score 2.8, negative_score 0, POSITIVE, 0.78. *)
C14_IntensifierFactor ==
    (Scored /\ call.text # <<>>) =>
        LET words == preprocess_text(call.text)
            at(lexicon) == {i \in 1..Len(words) : words[i] \in lexicon}
        IN  /\ rets[1].positive_score = SumContributions(words, at(positive_keywords))
            /\ rets[1].negative_score =
                   SumContributions(words, at(negative_keywords \ positive_keywords))
            /\ call.text = ExampleText =>
                   /\ rets[1].positive_score = 28
                   /\ rets[1].negative_score = 0
                   /\ rets[1].sentiment = "POSITIVE"
                   /\ rets[1].confidence = 780

(* the example sentence has been scored *)
C14_Witness ==
    /\ Scored
    /\ call.text = ExampleText
    /\ rets[1].detected_keywords = << <<"+", "amazing">>, <<"+", "love">> >>
    /\ rets[1].positive_score = 28

(* C15: the empty text (None and "" alike fail the test "if not text") is
   scored NEUTRAL with confidence 0.0, both scores 0 and no keyword. *)
C15_EmptyTextShortCircuit ==
    (Scored /\ call.text = <<>>) =>
        rets[1] = [sentiment |-> "NEUTRAL", confidence |-> 0, positive_score |-> 0,
                   negative_score |-> 0, detected_keywords |-> <<>>]

C15_Witness == Scored /\ call.text = <<>> /\ rets[1].sentiment = "NEUTRAL"

(* C16: for a text whose tokens are all positive words, none of them an
   intensifier, positive_score is the number of words, negative_score is 0,
   and the label is POSITIVE exactly when positive_score > 1.0. *)
C16_PositiveWordsOnly ==
    (/\ Scored
     /\ call.text # <<>>
     /\ \A k \in 1..Len(call.text) : call.text[k] \in positive_keywords) =>
        /\ rets[1].positive_score = 10 * Len(call.text)
        /\ rets[1].negative_score = 0
        /\ (rets[1].sentiment = "POSITIVE") <=> (rets[1].positive_score > 10)

(* a single positive word: not POSITIVE *)
C16_Witness ==
    /\ Scored
    /\ call.text = <<"love">>
    /\ rets[1].positive_score = 10
    /\ rets[1].sentiment = "NEUTRAL"

(* C17: detected_keywords has at most 10 entries and is the first 10 matches
   recorded in the order the tokens are scanned; business_keywords has at
   most 15 entries. *)
C17_KeywordListsBounded ==
    /\ Scored =>
          LET words == preprocess_text(call.text)
              hits == SelectSeq(words, LAMBDA t : t \in positive_keywords \cup negative_keywords)
              kept == IF Len(hits) < 10 THEN Len(hits) ELSE 10
              sign(t) == IF t \in positive_keywords THEN "+" ELSE "-"
          IN  /\ Len(rets[1].detected_keywords) <= 10
              /\ rets[1].detected_keywords = [k \in 1..kept |-> <<sign(hits[k]), hits[k]>>]
    /\ Extracted => Len(rets[1]) <= 15

(* a text with more than 10 sentiment words has been scored *)
C17_Witness ==
    /\ Scored
    /\ rets[1].positive_score + rets[1].negative_score > 100
    /\ Len(rets[1].detected_keywords) = 10

(* the places of the lowercased text where a term of the category stands *)
TermStarts(words, c) ==
    {i \in 1..Len(words) :
        \/ <<words[i]>> \in business_patterns[c]
        \/ i < Len(words) /\ <<words[i], words[i+1]>> \in business_patterns[c]}

TermAt(words, c, i) ==
    IF <<words[i]>> \in business_patterns[c] THEN <<words[i]>> ELSE <<words[i], words[i+1]>>

(* C19: the extractor returns category:match entries grouped by category in
   the order aws_services, competitors, technologies, sentiment_context, in
   text order within a category, repeated matches of a term kept, and of that
   sequence the first 15 entries. *)
C19_ExtractorOrder ==
    Extracted =>
        LET out == rets[1]
            words == [k \in 1..Len(call.text) |-> Lower(call.text[k])]
            of(c) == LET at == SortedSeq(TermStarts(words, c))
                     IN  [k \in 1..Len(at) |-> <<c, TermAt(words, c, at[k])>>]
            all == of("aws_services") \o of("competitors") \o of("technologies")
                       \o of("sentiment_context")
            kept == IF Len(all) < 15 THEN Len(all) ELSE 15
        IN  out = SubSeq(all, 1, kept)

(* more than 15 matches, a term repeated, the last category cut short *)
C19_Witness ==
    /\ Extracted
    /\ Len(rets[1]) = 15
    /\ rets[1][1] = <<"aws_services", <<"lambda">> >>
    /\ rets[1][2] = rets[1][1]
    /\ rets[1][15] = <<"sentiment_context", <<"cost">> >>

(* ------------- preprocess_text, character by character ---------------- *)
(* A text is a sequence of characters here; "http" stands for its four
   letters, which every pattern below takes or leaves together. *)
Chars == {"http", ":", "/", "u", "U", "r", "*", "\n"}

WhiteSpace == {" ", "\n"}
(* \w *)
WordChars == {"http", "u", "U", "r"}
(* the character class of the URL pattern: letters, digits, the range from
   $ to _ (which holds the colon, the slash and the star), @ . & + ! ( ) and
   the comma; no white space *)
URLChars == {"http", ":", "/", "u", "U", "r", "*"}

(* text.lower() *)
lower(text) == [k \in 1..Len(text) |-> IF text[k] = "U" THEN "u" ELSE text[k]]

(* how many characters from i on belong to class *)
RECURSIVE RunLength(_, _, _)
RunLength(text, i, class) ==
    IF i <= Len(text) /\ text[i] \in class THEN 1 + RunLength(text, i + 1, class) ELSE 0

StartsWith(text, i, literal) ==
    /\ i + Len(literal) - 1 <= Len(text)
    /\ SubSeq(text, i, i + Len(literal) - 1) = literal

(* the length of the match of a pattern of lines 63-68 at place i, 0 for
   no match: the URL pattern and the two mention patterns are greedy, the
   bold pattern takes the nearest closing pair of stars and its dot does not
   match a newline *)
MatchLength(pattern, text, i) ==
    CASE pattern = "url" ->
             LET n == RunLength(text, i + 4, URLChars)
             IN  IF StartsWith(text, i, <<"http", ":", "/", "/">>) /\ n > 0 THEN 4 + n ELSE 0
      [] pattern = "user" ->
             LET n == RunLength(text, i + 3, WordChars)
             IN  IF StartsWith(text, i, <<"/", "u", "/">>) /\ n > 0 THEN 3 + n ELSE 0
      [] pattern = "subreddit" ->
             LET n == RunLength(text, i + 3, WordChars)
             IN  IF StartsWith(text, i, <<"/", "r", "/">>) /\ n > 0 THEN 3 + n ELSE 0
      [] pattern = "bold" ->
             LET closing == {j \in (i + 2)..(Len(text) - 1) :
                                /\ text[j] = "*" /\ text[j+1] = "*"
                                /\ \A k \in (i + 2)..(j - 1) : text[k] # "\n"}
             IN  IF StartsWith(text, i, <<"*", "*">>) /\ closing # {}
                 THEN (CHOOSE j \in closing : \A h \in closing : j <= h) + 2 - i
                 ELSE 0

(* re.sub(pattern, '', text) from place i on *)
RECURSIVE re_sub(_, _, _)
re_sub(pattern, text, i) ==
    IF i > Len(text) THEN <<>>
    ELSE LET n == MatchLength(pattern, text, i)
         IN  IF n > 0 THEN re_sub(pattern, text, i + n)
             ELSE <<text[i]>> \o re_sub(pattern, text, i + 1)

(* ' '.join(text.split()): the words, one space between two of them *)
join_split(text) ==
    LET kept == {i \in 1..Len(text) :
                    \/ text[i] \notin WhiteSpace
                    \/ /\ i > 1 /\ text[i-1] \notin WhiteSpace
                       /\ \E j \in (i + 1)..Len(text) : text[j] \notin WhiteSpace}
        at == SortedSeq(kept)
    IN  [k \in 1..Len(at) |-> IF text[at[k]] \in WhiteSpace THEN " " ELSE text[at[k]]]

(* preprocess_text on characters, lines 56-73 in their order *)
preprocess_text_chars(text) ==
    IF text = <<>> THEN <<>>
    ELSE LET lowered == lower(text)
             no_urls == re_sub("url", lowered, 1)
             no_users == re_sub("user", no_urls, 1)
             no_subreddits == re_sub("subreddit", no_users, 1)
             no_bold == re_sub("bold", no_subreddits, 1)
         IN  join_split(no_bold)

InitNormalizer ==
    /\ ColdStart
    /\ call \in {[fn |-> "preprocess_text", text |-> t] : t \in TextsUpTo(Chars, MaxChars)}
    /\ rets = <<>>

(* analyzer.preprocess_text(text) *)
call_preprocess_text ==
    /\ call.fn = "preprocess_text"
    /\ rets = <<>>
    /\ rets' = <<preprocess_text_chars(call.text)>>
    /\ UNCHANGED <<call, pipeline, server>>

(* analyzer.preprocess_text(clean_text), on the text the first call returned *)
call_preprocess_text_again ==
    /\ call.fn = "preprocess_text"
    /\ Len(rets) = 1
    /\ rets' = Append(rets, preprocess_text_chars(rets[1]))
    /\ UNCHANGED <<call, pipeline, server>>

NextNormalizer ==
    \/ call_preprocess_text
    \/ call_preprocess_text_again

SpecNormalizer == InitNormalizer /\ [][NextNormalizer]_vars

(* C18: normalizing a normalized text changes nothing:
   normalize(normalize(x)) = normalize(x) for every text x. *)
C18_NormalizeIdempotent ==
    (call.fn = "preprocess_text" /\ Len(rets) = 2) => rets[2] = rets[1]

(* ----------------- fastapi_app.py: get_sentiment_summary -------------- *)
(* round(num / den, places) on exact values: to the nearest, ties to even *)
Round(num, den) ==
    LET q == num \div den
        r == num % den
    IN  IF 2 * r > den \/ (2 * r = den /\ q % 2 = 1) THEN q + 1 ELSE q

RECURSIVE SumConfidence(_, _)
SumConfidence(items, n) ==
    IF n = 0 THEN 0
    ELSE SumConfidence(items, n - 1) + Get(items[n], "confidence_score", 0)

(* the summary whose divisions are not guarded by total_count > 0: the
   ZeroDivisionError is caught and answered with status 500 *)
get_sentiment_summary_unguarded(items) ==
    LET total_count == Len(items)
        sentiment_counts ==
            [label \in {"POSITIVE", "NEGATIVE", "NEUTRAL", "MIXED"} |->
                Cardinality({k \in 1..Len(items) : Get(items[k], "sentiment", "NEUTRAL") = label})]
        total_confidence == SumConfidence(items, Len(items))
        subreddits == {Get(items[k], "subreddit", "unknown") : k \in 1..Len(items)}
        subreddit_counts ==
            [sr \in subreddits |->
                Cardinality({k \in 1..Len(items) : Get(items[k], "subreddit", "unknown") = sr})]
        percentage(label) == Round(sentiment_counts[label] * 1000, total_count)
    IN  IF total_count = 0
        THEN [statusCode |-> 500, detail |-> "Error fetching summary: division by zero"]
        ELSE [statusCode |-> 200,
              total_count |-> total_count,
              positive_count |-> sentiment_counts["POSITIVE"],
              negative_count |-> sentiment_counts["NEGATIVE"],
              neutral_count |-> sentiment_counts["NEUTRAL"],
              mixed_count |-> sentiment_counts["MIXED"],
              average_confidence |-> Round(total_confidence, total_count),
              subreddit_breakdown |-> subreddit_counts,
              sentiment_distribution |->
                  [positive_percentage |-> percentage("POSITIVE"),
                   negative_percentage |-> percentage("NEGATIVE"),
                   neutral_percentage |-> percentage("NEUTRAL"),
                   mixed_percentage |-> percentage("MIXED")]]

(* the summary that counts a sentiment outside the four labels as NEUTRAL *)
get_sentiment_summary_else_neutral(items) ==
    LET summary == get_sentiment_summary_unguarded(items)
        others == {k \in 1..Len(items) :
                      Get(items[k], "sentiment", "NEUTRAL")
                          \notin {"POSITIVE", "NEGATIVE", "NEUTRAL", "MIXED"}}
    IN  IF items = <<>> THEN summary
        ELSE [summary EXCEPT !.neutral_count = @ + Cardinality(others)]

(* get_sentiment_summary over the items of the scan: confidences in
   thousandths, percentages in tenths of a percent *)
get_sentiment_summary(items) ==
    LET total_count == Len(items)
        sentiment_counts ==
            [label \in {"POSITIVE", "NEGATIVE", "NEUTRAL", "MIXED"} |->
                Cardinality({k \in 1..Len(items) : Get(items[k], "sentiment", "NEUTRAL") = label})]
        total_confidence == SumConfidence(items, Len(items))
        subreddits == {Get(items[k], "subreddit", "unknown") : k \in 1..Len(items)}
        subreddit_counts ==
            [sr \in subreddits |->
                Cardinality({k \in 1..Len(items) : Get(items[k], "subreddit", "unknown") = sr})]
        average_confidence ==
            IF total_count > 0 THEN Round(total_confidence, total_count) ELSE 0
        percentage(label) ==
            IF total_count > 0 THEN Round(sentiment_counts[label] * 1000, total_count) ELSE 0
    IN  [statusCode |-> 200,
         total_count |-> total_count,
         positive_count |-> sentiment_counts["POSITIVE"],
         negative_count |-> sentiment_counts["NEGATIVE"],
         neutral_count |-> sentiment_counts["NEUTRAL"],
         mixed_count |-> sentiment_counts["MIXED"],
         average_confidence |-> average_confidence,
         subreddit_breakdown |-> subreddit_counts,
         sentiment_distribution |->
             [positive_percentage |-> percentage("POSITIVE"),
              negative_percentage |-> percentage("NEGATIVE"),
              neutral_percentage |-> percentage("NEUTRAL"),
              mixed_percentage |-> percentage("MIXED")]]

(* items a scan of the processed table can hold: the records the Lambda
   writes for the four feed items and for a comment of mixed sentiment from
   r/aws, an item that has none of the attributes the summary reads, and an
   item whose sentiment is none of the four labels *)
ScannedItems ==
    {process_post_sentiment(FeedItem(k), k) : k \in 1..4}
    \cup {process_post_sentiment(
              [subreddit |-> "aws"] @@ extract_comment_data(5, <<"good", "bad">>), 5)}
    \cup {[analysis_id |-> 6]}
    \cup {[analysis_id |-> 7, sentiment |-> "PENDING", subreddit |-> "aws"]}

InitSummary ==
    /\ ColdStart
    /\ call \in {[fn |-> "get_sentiment_summary", items |-> s] :
                    s \in TextsUpTo(ScannedItems, MaxItems)}
    /\ rets = <<>>

(* GET /sentiments/summary *)
call_get_sentiment_summary ==
    /\ call.fn = "get_sentiment_summary"
    /\ rets = <<>>
    /\ rets' = <<get_sentiment_summary(call.items)>>
    /\ UNCHANGED <<call, pipeline, server>>

NextSummary == call_get_sentiment_summary

SpecSummary == InitSummary /\ [][NextSummary]_vars

Summarized == call.fn = "get_sentiment_summary" /\ rets # <<>>

(* C20: the summary of no analysis record at all is answered without a
   division by zero and has total_count 0, every sentiment percentage 0 and
   average_confidence 0. *)
C20_EmptySummary ==
    (Summarized /\ call.items = <<>>) =>
        /\ rets[1].statusCode = 200
        /\ rets[1].total_count = 0
        /\ rets[1].average_confidence = 0
        /\ \A f \in DOMAIN rets[1].sentiment_distribution :
               rets[1].sentiment_distribution[f] = 0
        /\ DOMAIN rets[1].sentiment_distribution =
               {"positive_percentage", "negative_percentage", "neutral_percentage",
                "mixed_percentage"}

C20_Witness ==
    /\ Summarized
    /\ call.items = <<>>
    /\ rets[1].statusCode = 200
    /\ rets[1].subreddit_breakdown = <<>>

RECURSIVE SumCounts(_, _)
SumCounts(counts, keys) ==
    IF keys = {} THEN 0
    ELSE LET key == CHOOSE x \in keys : TRUE
         IN  counts[key] + SumCounts(counts, keys \ {key})

SentimentCountSum(summary) ==
    summary.positive_count + summary.negative_count
        + summary.neutral_count + summary.mixed_count

(* C24: in every summary the aggregator returns, total_count is the number
   of records read, the per-subreddit breakdown counts add up to total_count,
   and the four sentiment counts add up to total_count when every record's
   sentiment (NEUTRAL for a record without one, as the aggregator reads it)
   is one of POSITIVE, NEGATIVE, NEUTRAL, MIXED, and to less than total_count
   otherwise. *)
C24_SummaryCounts ==
    Summarized =>
        LET summary == rets[1]
            items == call.items
            labelled == \A k \in 1..Len(items) :
                            Get(items[k], "sentiment", "NEUTRAL")
                                \in {"POSITIVE", "NEGATIVE", "NEUTRAL", "MIXED"}
        IN  /\ "total_count" \in DOMAIN summary
            /\ summary.total_count = Len(items)
            /\ SumCounts(summary.subreddit_breakdown,
                         DOMAIN summary.subreddit_breakdown) = summary.total_count
            /\ labelled => SentimentCountSum(summary) = summary.total_count
            /\ ~labelled => SentimentCountSum(summary) < summary.total_count

C24_Witness ==
    /\ Summarized
    /\ Len(call.items) = 3
    /\ \E k \in 1..3 : Get(call.items[k], "sentiment", "NEUTRAL") = "PENDING"
    /\ \E k \in 1..3 : "sentiment" \notin DOMAIN call.items[k]
    /\ SentimentCountSum(rets[1]) = 2
    /\ Cardinality(DOMAIN rets[1].subreddit_breakdown) = 2

(* C21: in single mode every error reaches the caller: a missing post_id, an
   unknown post_id and a store call that raises all leave process_single_post
   as the exception that was raised, and lambda_handler answers 500 with that
   exception's message, never 200. *)
C21_SingleErrorsSurface ==
    \A w \in Workers :
        IsSingle(w) =>
            LET post_id == Get(event[w], "post_id", NoPostId)
            IN  /\ faults[w] > 0 => (pc[w] = "raised" /\ exc[w].type = "ClientError")
                /\ (post_id = NoPostId /\ pc[w] # "single_query") =>
                       (pc[w] = "raised" /\ exc[w] = MissingPostId)
                /\ pc[w] = "raised" =>
                       /\ exc[w] # NoExc
                       /\ result[w] = NoResult
                       /\ Response(w) = [statusCode |-> 500, message |-> exc[w].msg]
                /\ pc[w] = "done" =>
                       /\ faults[w] = 0
                       /\ exc[w] = NoExc
                       /\ post_id \in DOMAIN rawTable
                       /\ Response(w).statusCode = 200

(* put_item of the analysis record raised in a single-mode invocation *)
C21_Witness ==
    \E w \in Workers :
        /\ IsSingle(w)
        /\ pc[w] = "raised"
        /\ exc[w] = StoreError("put_item")
        /\ Response(w).statusCode = 500

(* process_post_sentiment returned to invocation w in this step *)
Analysed(w) ==
    /\ pc[w] \in {"single_process", "batch_process"}
    /\ pc'[w] \in {"single_mark", "batch_mark"}

(* C22: each successful processing attempt adds exactly one analysis record,
   under an analysis_id no record had before, and no step of process_batch
   or process_single changes or removes a record that exists. *)
C22_OneRecordPerSuccess ==
    [][/\ \A a \in DOMAIN processedTable :
             a \in DOMAIN processedTable' /\ processedTable'[a] = processedTable[a]
       /\ \A w \in Workers :
             Analysed(w) =>
                 \E a \in DOMAIN processedTable' \ DOMAIN processedTable :
                     /\ DOMAIN processedTable' = DOMAIN processedTable \cup {a}
                     /\ processedTable'[a].analysis_id = a
                     /\ processedTable'[a].original_post_id =
                            unprocessed_posts[w][idx[w]].post_id
       /\ processedTable' # processedTable => \E w \in Workers : Analysed(w)]_vars

(* one post analysed twice: two records, the first one still there *)
C22_Witness ==
    \E a, b \in DOMAIN processedTable :
        /\ a < b
        /\ processedTable[a].original_post_id = processedTable[b].original_post_id

(* C23: when process_batch returns, no item it fetched is still raw: each is
   processed, with a processed-at timestamp and an analysis record, or error,
   with an error message, and processed_count plus the number of fetched
   items in status error equals total_found. *)
C23_BatchEndState ==
    \A w \in Workers :
        (pc[w] = "done" /\ IsBatch(w)) =>
            LET fetched == FetchedIds(w)
                marked(status) == {i \in fetched : Status(i) = status}
            IN  /\ \A i \in fetched :
                      \/ /\ Status(i) = "processed"
                         /\ "processed_at" \in DOMAIN rawTable[i]
                         /\ RecordsFor(processedTable, i) # {}
                      \/ /\ Status(i) = "error"
                         /\ "error_message" \in DOMAIN rawTable[i]
                /\ "total_found" \in DOMAIN result[w]
                /\ result[w].processed_posts + Cardinality(marked("error"))
                       = result[w].total_found

(* C27: in every result of a process_batch call that found items,
   processed_count is the number of entries of analysis_ids, and every id in
   analysis_ids is the analysis of an item that ended in status processed. *)
C27_CountMatchesAnalysisIds ==
    \A w \in Workers :
        (pc[w] = "done" /\ IsBatch(w) /\ "analysis_ids" \in DOMAIN result[w]) =>
            /\ result[w].processed_posts = Len(result[w].analysis_ids)
            /\ \A n \in 1..Len(result[w].analysis_ids) :
                   LET a == result[w].analysis_ids[n]
                   IN  /\ a \in DOMAIN processedTable
                       /\ Status(processedTable[a].original_post_id) = "processed"

(* ------- lambda_func.py: process_post_sentiment on character texts ------ *)
(* texts as sequences of characters, to follow strip() and the [:1000] cut *)
Good == <<"g", "o", "o", "d">>
Bad == <<"b", "a", "d">>
Aws == <<"a", "w", "s">>
Space == <<" ">>

(* the words of the vocabulary, by their characters *)
Spelling == [good |-> Good, bad |-> Bad, aws |-> Aws]

(* a run of n letters without white space *)
Pad(n) == [k \in 1..n |-> "a"]

(* str.strip(): the text without its leading and trailing white space *)
strip(text) ==
    LET inked == {k \in 1..Len(text) : text[k] \notin WhiteSpace}
    IN  IF inked = {} THEN <<>>
        ELSE SubSeq(text, CHOOSE a \in inked : \A b \in inked : a <= b,
                          CHOOSE a \in inked : \A b \in inked : a >= b)

(* str.split() followed by the reading of each word as a token of the
   scorer: a word of the vocabulary is that token, any other word is a token
   that is no keyword *)
Words(text) ==
    LET n == Len(text)
        starts == SortedSeq({k \in 1..n : /\ text[k] \notin WhiteSpace
                                         /\ (k = 1 \/ text[k - 1] \in WhiteSpace)})
        ends == SortedSeq({k \in 1..n : /\ text[k] \notin WhiteSpace
                                       /\ (k = n \/ text[k + 1] \in WhiteSpace)})
        token(word) == IF \E t \in DOMAIN Spelling : Spelling[t] = word
                       THEN CHOOSE t \in DOMAIN Spelling : Spelling[t] = word
                       ELSE "word"
    IN  [k \in 1..Len(starts) |-> token(SubSeq(text, starts[k], ends[k]))]

(* lines 354-360 *)
AnalysisText_chars(post) ==
    LET combined_text == Get(post, "combined_text", <<>>)
    IN  IF combined_text = <<>>
        THEN strip(Get(post, "title", <<>>) \o Space \o Get(post, "selftext", <<>>))
        ELSE combined_text

(* the record whose scores and keywords come from the cut text *)
process_post_sentiment_cut_first(post, analysis_id) ==
    LET full_text == AnalysisText_chars(post)
        combined_text == SubSeq(full_text, 1, Min(InputTextLimit, Len(full_text)))
        sentiment_result == analyze_sentiment(Words(combined_text))
    IN  [analysis_id |-> analysis_id,
         original_post_id |-> post.post_id,
         input_text |-> combined_text,
         sentiment |-> sentiment_result.sentiment,
         confidence_score |-> sentiment_result.confidence,
         positive_score |-> sentiment_result.positive_score,
         negative_score |-> sentiment_result.negative_score,
         detected_keywords |-> sentiment_result.detected_keywords,
         business_keywords |-> extract_business_keywords(Words(combined_text)),
         subreddit |-> Get(post, "subreddit", "unknown")]

(* lines 354-392 on character texts *)
process_post_sentiment_chars(post, analysis_id) ==
    LET combined_text == AnalysisText_chars(post)
        sentiment_result == analyze_sentiment(Words(combined_text))
    IN  [analysis_id |-> analysis_id,
         original_post_id |-> post.post_id,
         input_text |-> SubSeq(combined_text, 1, Min(InputTextLimit, Len(combined_text))),
         sentiment |-> sentiment_result.sentiment,
         confidence_score |-> sentiment_result.confidence,
         positive_score |-> sentiment_result.positive_score,
         negative_score |-> sentiment_result.negative_score,
         detected_keywords |-> sentiment_result.detected_keywords,
         business_keywords |-> extract_business_keywords(Words(combined_text)),
         subreddit |-> Get(post, "subreddit", "unknown")]

(* the posts of the set, and each of them with the attribute added *)
WithField(posts, name, values) ==
    posts \cup {post @@ (name :> v) : post \in posts, v \in values}

(* combined_text values: empty, white space only, short, and texts around
   the storage limit that end in a keyword *)
CombinedTexts ==
    {<<>>, Space, Good \o Space \o Aws, Space \o Bad \o Space,
     Pad(InputTextLimit - 5) \o Space \o Good,
     Pad(InputTextLimit - 4) \o Space \o Good,
     Pad(InputTextLimit - 1) \o Space \o Good,
     Pad(InputTextLimit) \o Space \o Good \o Space \o Bad}

Titles == {<<>>, Good, Space \o Bad}

Selftexts == {<<>>, Aws \o Space, Bad}

(* raw items with and without each of the three text attributes *)
StoredPosts ==
    WithField(WithField(WithField({[post_id |-> 1]},
        "combined_text", CombinedTexts), "title", Titles), "selftext", Selftexts)

InitProcessor ==
    /\ ColdStart
    /\ call \in {[fn |-> "process_post_sentiment", post |-> post] : post \in StoredPosts}
    /\ rets = <<>>

call_process_post_sentiment ==
    /\ call.fn = "process_post_sentiment"
    /\ rets = <<>>
    /\ rets' = <<process_post_sentiment_chars(call.post, 1)>>
    /\ UNCHANGED <<call, pipeline, server>>

NextProcessor == call_process_post_sentiment

SpecProcessor == InitProcessor /\ [][NextProcessor]_vars

Processed == call.fn = "process_post_sentiment" /\ rets # <<>>

(* t is s without its leading and trailing white space *)
IsStripped(t, s) ==
    \E lead \in 0..Len(s) :
        /\ lead + Len(t) <= Len(s)
        /\ t = SubSeq(s, lead + 1, lead + Len(t))
        /\ \A k \in (1..lead) \cup ((lead + Len(t) + 1)..Len(s)) : s[k] \in WhiteSpace
        /\ t # <<>> => (t[1] \notin WhiteSpace /\ t[Len(t)] \notin WhiteSpace)

(* C25: the text process_post_sentiment analyses is the item's combined_text
   when that is present and not empty, and otherwise title, a space and
   selftext with the white space at both ends removed; the stored input_text
   is the first min(length, 1000) characters of that text, and the sentiment,
   the scores and the keywords are those of the whole text. *)
C25_AnalysisTextAndCut ==
    Processed =>
            LET post == call.post
                text == AnalysisText_chars(post)
                record == rets[1]
                expected == analyze_sentiment(Words(text))
            IN  /\ IF "combined_text" \in DOMAIN post /\ post.combined_text # <<>>
                   THEN text = post.combined_text
                   ELSE IsStripped(text, Get(post, "title", <<>>) \o Space
                                             \o Get(post, "selftext", <<>>))
                /\ Len(record.input_text) = Min(Len(text), 1000)
                /\ record.input_text = SubSeq(text, 1, Len(record.input_text))
                /\ record.sentiment = expected.sentiment
                /\ record.confidence_score = expected.confidence
                /\ record.positive_score = expected.positive_score
                /\ record.negative_score = expected.negative_score
                /\ record.detected_keywords = expected.detected_keywords
                /\ record.business_keywords = extract_business_keywords(Words(text))

C25_Witness ==
    /\ Processed
    /\ Len(Get(call.post, "combined_text", <<>>)) = 1004
    /\ Len(rets[1].input_text) = 1000
    /\ rets[1].input_text = Pad(999) \o Space
    /\ rets[1].positive_score = 10
    /\ rets[1].detected_keywords # <<>>

(* ------------- streamhandler.py: dynamodb_stream_handler -------------- *)
(* the second at which the handler runs, for int(datetime.now().timestamp()) *)
StreamSecond == 1

(* lines 134-145, on the tokens of the text *)
detect_business_keywords(text) ==
    SelectSeq(<<"aws", "lambda", "serverless", "cloud", "cost">>,
              LAMBDA kw : \E k \in 1..Len(text) : Lower(text[k]) = kw)

(* process_single_post_realtime, lines 54-132: the value it returns (None
   when there is no text), the exception it raises again, and the processed
   table after it. A stream record carries in "service" what Comprehend and
   the table answer while the record is processed. *)
process_single_post_realtime(dynamodb_item, service, table) ==
    IF "post_id" \notin DOMAIN dynamodb_item
    THEN [raised |-> "'post_id'", table |-> table]
    ELSE LET post_id == dynamodb_item.post_id
             text_to_analyze == Get(dynamodb_item, "title", <<>>)
                                    \o Get(dynamodb_item, "content", <<>>)
             analysis_id == <<"rt", post_id, StreamSecond>>
             analysis_record ==
                 [analysis_id |-> analysis_id,
                  original_post_id |-> post_id,
                  input_text |-> text_to_analyze,
                  sentiment |-> service.Sentiment,
                  keywords_detected |-> detect_business_keywords(text_to_analyze),
                  subreddit |-> Get(dynamodb_item, "subreddit", "unknown"),
                  processing_method |-> "realtime_stream"]
         IN  IF text_to_analyze = <<>>
             THEN [returned |-> NoResult, table |-> table]
             ELSE IF service.raises = "detect_sentiment"
             THEN [raised |-> "detect_sentiment", table |-> table]
             ELSE IF service.raises = "put_item"
             THEN [raised |-> "put_item", table |-> table]
             ELSE [returned |-> analysis_record,
                   table |-> put_item(table, analysis_id, analysis_record)]

RECURSIVE StreamLoop(_, _)

(* the for loop of lines 23-41 over the first n records: line 37 calls
   await_notification, a name the module does not define, so the NameError
   is caught by line 39 after the count of line 33 *)
StreamLoop(Records, n) ==
    IF n = 0 THEN [processed_count |-> 0, errors |-> <<>>, table |-> <<>>]
    ELSE LET acc == StreamLoop(Records, n - 1)
             record == Records[n]
         IN  IF "eventName" \notin DOMAIN record
             THEN [acc EXCEPT !.errors = Append(@, <<"Error processing record: ", "'eventName'">>)]
             ELSE IF record.eventName # "INSERT" THEN acc
             ELSE LET out == process_single_post_realtime(
                                 record.dynamodb.NewImage, record.service, acc.table)
                  IN  IF "raised" \in DOMAIN out
                      THEN [acc EXCEPT !.errors =
                                Append(@, <<"Error processing record: ", out.raised>>)]
                      ELSE IF out.returned = NoResult THEN acc
                      ELSE [acc EXCEPT
                               !.processed_count = @ + 1,
                               !.table = out.table,
                               !.errors = Append(@,
                                   <<"Error processing record: ",
                                     "name 'await_notification' is not defined">>)]

(* dynamodb_stream_handler, lines 13-52, with the processed table it leaves *)
dynamodb_stream_handler(stream_event) ==
    LET done == StreamLoop(stream_event.Records, Len(stream_event.Records))
    IN  [statusCode |-> 200,
         body |-> [processed_count |-> done.processed_count, errors |-> done.errors],
         processed_table |-> done.table]

MaxRecords == 3

Answers(sentiment, raises) == [Sentiment |-> sentiment, raises |-> raises]

StreamRecord(eventName, image, service) ==
    [eventName |-> eventName, dynamodb |-> [NewImage |-> image], service |-> service]

(* the stream records of a batch: inserts whose analysis is stored, inserts
   for which Comprehend or put_item raises, an insert without text, an insert
   without post_id, a modification and a removal *)
StreamRecords ==
    {StreamRecord("INSERT", [post_id |-> 1, title |-> <<"good">>, content |-> <<"aws">>],
                  Answers("POSITIVE", "nothing")),
     StreamRecord("INSERT", [post_id |-> 2, content |-> <<"good", "bad">>],
                  Answers("MIXED", "nothing")),
     StreamRecord("INSERT", [post_id |-> 3, title |-> <<"bad">>],
                  Answers("NEGATIVE", "detect_sentiment")),
     StreamRecord("INSERT", [post_id |-> 4, title |-> <<"bad">>],
                  Answers("NEGATIVE", "put_item")),
     StreamRecord("INSERT", [post_id |-> 5, title |-> <<>>, content |-> <<>>],
                  Answers("NEUTRAL", "nothing")),
     StreamRecord("INSERT", [title |-> <<"good">>], Answers("POSITIVE", "nothing")),
     StreamRecord("MODIFY", [post_id |-> 1, title |-> <<"good">>],
                  Answers("POSITIVE", "nothing")),
     [eventName |-> "REMOVE", dynamodb |-> [Keys |-> [post_id |-> 1]]]}

InitStream ==
    /\ ColdStart
    /\ call \in {[fn |-> "dynamodb_stream_handler", event |-> [Records |-> s]] :
                    s \in TextsUpTo(StreamRecords, MaxRecords)}
    /\ rets = <<>>

call_dynamodb_stream_handler ==
    /\ call.fn = "dynamodb_stream_handler"
    /\ rets = <<>>
    /\ rets' = <<dynamodb_stream_handler(call.event)>>
    /\ UNCHANGED <<call, pipeline, server>>

NextStream == call_dynamodb_stream_handler

SpecStream == InitStream /\ [][NextStream]_vars

Streamed == call.fn = "dynamodb_stream_handler" /\ rets # <<>>

IsInsert(record) == record.eventName = "INSERT"

HasText(record) ==
    Get(record.dynamodb.NewImage, "title", <<>>)
        \o Get(record.dynamodb.NewImage, "content", <<>>) # <<>>

(* an INSERT record whose processing raises *)
InsertRaises(record) ==
    /\ IsInsert(record)
    /\ \/ "post_id" \notin DOMAIN record.dynamodb.NewImage
       \/ HasText(record) /\ record.service.raises # "nothing"

(* an INSERT record whose analysis is stored *)
InsertStored(record) ==
    /\ IsInsert(record)
    /\ "post_id" \in DOMAIN record.dynamodb.NewImage
    /\ HasText(record)
    /\ record.service.raises = "nothing"

(* C26: for every batch of stream records the handler returns statusCode
   200 and accounts for each record once: processed_count is the number of
   INSERT records whose analysis is stored, errors has one entry for each
   INSERT record whose processing raises and no other entry, an INSERT record
   without text and a record that is no INSERT add to neither, and only the
   stored INSERT records are written to the processed table. *)
C26_StreamAccounting ==
    Streamed =>
        LET Records == call.event.Records
            at == 1..Len(Records)
            stored == {k \in at : InsertStored(Records[k])}
            raising == {k \in at : InsertRaises(Records[k])}
        IN  /\ rets[1].statusCode = 200
            /\ rets[1].body.processed_count = Cardinality(stored)
            /\ Len(rets[1].body.errors) = Cardinality(raising)
            /\ {rets[1].processed_table[a].original_post_id :
                    a \in DOMAIN rets[1].processed_table}
                   = {Records[k].dynamodb.NewImage.post_id : k \in stored}

(* ---------------- fastapi_app.py: the scrape job registry ------------- *)
MaxJobs == 2
MaxTicks == 2

(* line 493: the age in seconds beyond which a finished job is cleaned *)
CleanupAge == 3600

(* the clock advances by a second or by an hour; Ticks counts the advances *)
Ticks(time) == (time \div CleanupAge) + (time % CleanupAge)

Tick(seconds) ==
    /\ Ticks(now) < MaxTicks
    /\ now' = now + seconds
    /\ UNCHANGED <<call, rets, pipeline, job_status, task, response,
                   feedback_table, stream>>

(* ScrapeRequest bodies: one whose type leaves the keywords out, one whose
   list of subreddits is empty *)
ScrapeRequests ==
    {[analysis_type |-> "subreddits", subreddits |-> <<"aws">>, keywords |-> <<"lambda">>],
     [analysis_type |-> "both", subreddits |-> <<>>, keywords |-> <<"lambda">>]}

(* dict.update *)
update(entry, fields) == fields @@ entry

(* the answer of a request handler *)
Answer(handler, status_code, body) ==
    [handler |-> handler, status_code |-> status_code, body |-> body]

(* run_scraping_job has no await: once its task runs, the event loop serves
   nothing else until it ends *)
LoopFree == \A j \in DOMAIN task : task[j].pc \in {"pending", "finished"}

(* POST /scrape/start, lines 341-366; start_time, which nothing reads, is
   left out of the entry *)
start_scraping(request) ==
    /\ LoopFree
    /\ Cardinality(DOMAIN task) < MaxJobs
    /\ LET job_id == Cardinality(DOMAIN task) + 1
       IN  /\ job_status' = put_item(job_status, job_id,
                                [status |-> "started", progress |-> 0,
                                 message |-> "Initializing scraping job...",
                                 error |-> "None"])
           /\ task' = put_item(task, job_id, [pc |-> "pending", request |-> request])
           /\ response' = Answer("start_scraping", 200,
                                 [status |-> "started", job_id |-> job_id])
    /\ UNCHANGED <<call, rets, pipeline, now, feedback_table, stream>>

(* GET /scrape/status/{job_id}, lines 368-375 *)
get_scraping_status(job_id) ==
    /\ LoopFree
    /\ response' = IF job_id \notin DOMAIN job_status
                   THEN Answer("get_scraping_status", 404,
                               [detail |-> "Job not found", job_id |-> job_id])
                   ELSE Answer("get_scraping_status", 200,
                               [job_id |-> job_id] @@ job_status[job_id])
    /\ UNCHANGED <<call, rets, pipeline, job_status, task, now, feedback_table, stream>>

(* job_status[job_id].update(fields) in the task of job_id, which then goes
   on at place next; without an entry the update raises KeyError, also in
   the except block, and the task ends *)
JobUpdate(job_id, fields, next) ==
    IF job_id \in DOMAIN job_status
    THEN /\ job_status' = [job_status EXCEPT ![job_id] = update(@, fields)]
         /\ task' = [task EXCEPT ![job_id].pc = next]
    ELSE /\ task' = [task EXCEPT ![job_id].pc = "finished"]
         /\ UNCHANGED job_status

(* the except block of lines 470-478 *)
JobFailed(job_id, error) ==
    JobUpdate(job_id, [status |-> "failed", progress |-> 0,
                       message |-> "Scraping failed", error |-> error,
                       end_time |-> now], "finished")

JobStep(job_id, place) ==
    /\ job_id \in DOMAIN task
    /\ task[job_id].pc = place
    /\ UNCHANGED <<call, rets, pipeline, now, response, feedback_table, stream>>

(* lines 403-412: the import of the scraper, then status running *)
run_scraping_job(job_id, ok) ==
    /\ LoopFree
    /\ JobStep(job_id, "pending")
    /\ IF ok
       THEN JobUpdate(job_id, [status |-> "running", progress |-> 10,
                               message |-> "Initializing Reddit scraper..."], "scraper")
       ELSE JobFailed(job_id, "import main")

(* lines 414-421: RedditScraperDynamoDB() *)
job_scraper(job_id, ok) ==
    /\ JobStep(job_id, "scraper")
    /\ IF ok
       THEN JobUpdate(job_id, [progress |-> 20,
                               message |-> "Starting data collection..."], "subreddits")
       ELSE JobFailed(job_id, "RedditScraperDynamoDB")

(* lines 425-430 *)
job_subreddits(job_id) ==
    /\ JobStep(job_id, "subreddits")
    /\ LET request == task[job_id].request
       IN  IF request.analysis_type \in {"subreddits", "both"} /\ request.subreddits # <<>>
           THEN JobUpdate(job_id, [progress |-> 30,
                                   message |-> "Scraping subreddits..."], "scrape")
           ELSE /\ task' = [task EXCEPT ![job_id].pc = "keywords"]
                /\ UNCHANGED job_status

(* lines 432-441: scrape_multiple_subreddits *)
job_scrape(job_id, ok) ==
    /\ JobStep(job_id, "scrape")
    /\ IF ok
       THEN JobUpdate(job_id, [progress |-> 60,
                               message |-> "Subreddit scraping complete"], "keywords")
       ELSE JobFailed(job_id, "scrape_multiple_subreddits")

(* lines 444-448 *)
job_keywords(job_id) ==
    /\ JobStep(job_id, "keywords")
    /\ LET request == task[job_id].request
       IN  IF request.analysis_type \in {"keywords", "both"} /\ request.keywords # <<>>
           THEN JobUpdate(job_id, [progress |-> 70,
                                   message |-> "Searching for keywords..."], "search")
           ELSE /\ task' = [task EXCEPT ![job_id].pc = "complete"]
                /\ UNCHANGED job_status

(* lines 450-459: search_and_scrape_by_keywords *)
job_search(job_id, ok) ==
    /\ JobStep(job_id, "search")
    /\ IF ok
       THEN JobUpdate(job_id, [progress |-> 90,
                               message |-> "Keyword search complete"], "complete")
       ELSE JobFailed(job_id, "search_and_scrape_by_keywords")

(* the last update without its end_time *)
job_complete_no_end_time(job_id) ==
    /\ JobStep(job_id, "complete")
    /\ JobUpdate(job_id, [status |-> "completed", progress |-> 100,
                          message |-> "Scraping completed successfully",
                          results |-> task[job_id].request.analysis_type], "finished")

(* lines 461-468 *)
job_complete(job_id) ==
    /\ JobStep(job_id, "complete")
    /\ JobUpdate(job_id, [status |-> "completed", progress |-> 100,
                          message |-> "Scraping completed successfully",
                          end_time |-> now,
                          results |-> task[job_id].request.analysis_type], "finished")

(* the cleanup that compares the age with >= *)
cleanup_old_jobs_inclusive ==
    /\ LoopFree
    /\ LET old_jobs == {job_id \in DOMAIN job_status :
                           /\ "end_time" \in DOMAIN job_status[job_id]
                           /\ now - job_status[job_id].end_time >= CleanupAge}
       IN  /\ job_status' = [job_id \in DOMAIN job_status \ old_jobs |-> job_status[job_id]]
           /\ response' = Answer("cleanup_old_jobs", 200,
                                 [cleaned_jobs |-> Cardinality(old_jobs)])
    /\ UNCHANGED <<call, rets, pipeline, task, now, feedback_table, stream>>

(* DELETE /scrape/jobs, lines 481-500 *)
cleanup_old_jobs ==
    /\ LoopFree
    /\ LET old_jobs == {job_id \in DOMAIN job_status :
                           /\ "end_time" \in DOMAIN job_status[job_id]
                           /\ now - job_status[job_id].end_time > CleanupAge}
       IN  /\ job_status' = [job_id \in DOMAIN job_status \ old_jobs |-> job_status[job_id]]
           /\ response' = Answer("cleanup_old_jobs", 200,
                                 [cleaned_jobs |-> Cardinality(old_jobs)])
    /\ UNCHANGED <<call, rets, pipeline, task, now, feedback_table, stream>>

JobIds == 1..MaxJobs

NextJobs ==
    \/ \E seconds \in {1, CleanupAge} : Tick(seconds)
    \/ \E request \in ScrapeRequests : start_scraping(request)
    \/ \E job_id \in 1..(MaxJobs + 1) : get_scraping_status(job_id)
    \/ \E job_id \in JobIds, ok \in BOOLEAN : run_scraping_job(job_id, ok)
    \/ \E job_id \in JobIds, ok \in BOOLEAN : job_scraper(job_id, ok)
    \/ \E job_id \in JobIds : job_subreddits(job_id)
    \/ \E job_id \in JobIds, ok \in BOOLEAN : job_scrape(job_id, ok)
    \/ \E job_id \in JobIds : job_keywords(job_id)
    \/ \E job_id \in JobIds, ok \in BOOLEAN : job_search(job_id, ok)
    \/ \E job_id \in JobIds : job_complete(job_id)
    \/ cleanup_old_jobs

SpecJobs == Init /\ [][NextJobs]_vars

(* what every entry of the job-status map satisfies *)
EntryShape(entry) ==
    /\ entry.status \in {"started", "running", "completed", "failed"}
    /\ "end_time" \in DOMAIN entry <=> entry.status \in {"completed", "failed"}
    /\ entry.progress = 100 <=> entry.status = "completed"

(* a step of the registry under the given status moves: entries begin as
   started, change status only by one of the moves, keep their shape, and a
   status query answers 404 exactly for an id without entry *)
RegistryStep(moves) ==
    /\ \A job_id \in DOMAIN job_status' :
           /\ EntryShape(job_status'[job_id])
           /\ job_id \notin DOMAIN job_status => job_status'[job_id].status = "started"
           /\ job_id \in DOMAIN job_status =>
                  \/ job_status'[job_id].status = job_status[job_id].status
                  \/ <<job_status[job_id].status, job_status'[job_id].status>> \in moves
    /\ (response' # response /\ response'.handler = "get_scraping_status") =>
           LET job_id == response'.body.job_id
           IN  /\ (job_id \notin DOMAIN task \/ job_id \notin DOMAIN job_status)
                      => response'.status_code = 404
               /\ job_id \in DOMAIN job_status
                      => /\ response'.status_code = 200
                         /\ response'.body.status = job_status[job_id].status

(* C28: a job's status in the job-status map only moves started to running
   to completed or failed; a completed or failed entry never changes status
   again, end_time is present exactly when the status is completed or failed,
   progress is 100 exactly when the status is completed, and a status query
   for an id never started or cleaned up answers 404. *)
C28_StatusChain ==
    [][RegistryStep({<<"started", "running">>, <<"running", "completed">>,
                     <<"running", "failed">>})]_vars

(* C28 amended: as C28, with the one more move from started straight to
   failed, taken when the import at the head of run_scraping_job raises
   before the status is set to running. *)
C28_StatusChainOrEarlyFailure ==
    [][RegistryStep({<<"started", "running">>, <<"running", "completed">>,
                     <<"running", "failed">>, <<"started", "failed">>})]_vars

C28_Witness ==
    /\ \E job_id \in DOMAIN job_status :
           /\ job_status[job_id].status = "failed"
           /\ job_status[job_id].error = "import main"
           /\ "end_time" \in DOMAIN job_status[job_id]
    /\ \E job_id \in DOMAIN job_status :
           /\ job_status[job_id].status = "completed"
           /\ job_status[job_id].progress = 100
    /\ response # NoResult
    /\ response.handler = "get_scraping_status"
    /\ response.status_code = 404

(* C29: cleanup removes exactly the jobs whose end_time is more than 3600
   seconds in the past and reports their number; a job without end_time is
   never removed, every other entry is left as it was, nothing else removes
   an entry, and the task of a removed entry has ended, so no scrape job
   updates an entry that cleanup removed. *)
C29_CleanupExact ==
    [][LET removed == DOMAIN job_status \ DOMAIN job_status'
           old == {job_id \in DOMAIN job_status :
                      /\ "end_time" \in DOMAIN job_status[job_id]
                      /\ now - job_status[job_id].end_time > 3600}
           cleaned == \/ removed # {}
                      \/ response' # response /\ response'.handler = "cleanup_old_jobs"
       IN  /\ cleaned =>
                  /\ response'.handler = "cleanup_old_jobs"
                  /\ removed = old
                  /\ response'.body.cleaned_jobs = Cardinality(old)
                  /\ \A job_id \in DOMAIN job_status \ old :
                         /\ job_id \in DOMAIN job_status'
                         /\ job_status'[job_id] = job_status[job_id]
           /\ \A job_id \in DOMAIN task \ DOMAIN job_status :
                  /\ task[job_id].pc = "finished"
                  /\ job_id \notin DOMAIN job_status'
      ]_vars

C29_Witness ==
    /\ response # NoResult
    /\ response.handler = "cleanup_old_jobs"
    /\ response.body.cleaned_jobs = 1
    /\ \E job_id \in DOMAIN task : job_id \notin DOMAIN job_status
    /\ \E job_id \in DOMAIN job_status :
           /\ "end_time" \in DOMAIN job_status[job_id]
           /\ now - job_status[job_id].end_time = 3600

(* ------------- src/ingest.py, src/process.py, src/dashboard.py -------- *)
MaxFeedback == 2

SentimentLabels == {"POSITIVE", "NEGATIVE", "NEUTRAL", "MIXED"}

(* the bodies POSTed to ingest: with text, with text and source, without
   text, with empty text *)
FeedbackBodies ==
    {[text |-> "good"], [text |-> "bad", source |-> "app"],
     [source |-> "app"], [text |-> ""]}

(* src/ingest.py lambda_handler, lines 10-34; the put is followed by its
   INSERT record on the table's stream *)
ingest(body) ==
    /\ Cardinality(DOMAIN feedback_table) < MaxFeedback
    /\ IF Get(body, "text", "") = ""
       THEN /\ response' = Answer("ingest", 400, [error |-> "Missing text"])
            /\ UNCHANGED <<feedback_table, stream>>
       ELSE LET pk == Cardinality(DOMAIN feedback_table) + 1
                item == [pk |-> pk, timestamp |-> now, text |-> body.text,
                         source |-> Get(body, "source", "public"),
                         sentiment |-> "PENDING"]
            IN  /\ feedback_table' = put_item(feedback_table, pk, item)
                /\ stream' = Append(stream, [eventName |-> "INSERT", NewImage |-> item])
                /\ response' = Answer("ingest", 200,
                                      [message |-> "Feedback received", id |-> pk])
    /\ UNCHANGED <<call, rets, pipeline, job_status, task, now>>

(* comprehend.detect_sentiment on the texts of the bodies *)
detect_sentiment(text) == IF text = "good" THEN "POSITIVE" ELSE "NEGATIVE"

(* src/process.py, lines 15-34, for the first n records of the batch: the
   records before the one at which a call raises are updated; each update
   that changes an item puts a MODIFY record on the stream *)
RECURSIVE ProcessRecords(_, _, _)
ProcessRecords(Records, n, raising) ==
    IF n = 0 THEN [table |-> feedback_table, modified |-> <<>>]
    ELSE LET before == ProcessRecords(Records, n - 1, raising)
             record == Records[n]
         IN  IF record.eventName # "INSERT" \/ (raising # 0 /\ n >= raising)
             THEN before
             ELSE LET pk == record.NewImage.pk
                      after == update_item(before.table, pk,
                                   [sentiment |-> detect_sentiment(record.NewImage.text),
                                    scores |-> "SentimentScore"])
                  IN  [table |-> after,
                       modified |-> IF after[pk] = before.table[pk] THEN before.modified
                                    ELSE Append(before.modified,
                                                [eventName |-> "MODIFY",
                                                 NewImage |-> after[pk]])]

(* src/process.py lambda_handler, lines 9-34, on the first size records of
   the stream; raising = 0 when no call raises, else the place of the record
   at which detect_sentiment or update_item raises, and then the handler
   raises and the batch stays on the stream to be delivered again *)
process(size, raising) ==
    /\ size \in 1..Len(stream)
    /\ raising \in 0..size
    /\ raising # 0 => stream[raising].eventName = "INSERT"
    /\ LET done == ProcessRecords(SubSeq(stream, 1, size), size, raising)
       IN  /\ feedback_table' = done.table
           /\ stream' = (IF raising = 0 THEN SubSeq(stream, size + 1, Len(stream))
                         ELSE stream) \o done.modified
    /\ UNCHANGED <<call, rets, pipeline, job_status, task, now, response>>

(* the items of the scan of lines 18-22, in the order the scan returns them *)
LastHour == SelectSeq(SortedSeq(DOMAIN feedback_table),
                      LAMBDA pk : feedback_table[pk].timestamp >= now - CleanupAge)

(* it['timestamp'][:16] *)
Minute(timestamp) == timestamp \div 60

(* src/dashboard.py lambda_handler, lines 9-42: counts takes any sentiment,
   the per-minute dict of trend has the four labels only, so line 31 raises
   KeyError for any other sentiment and the handler ends with that error *)
dashboard ==
    /\ LET items == [k \in 1..Len(LastHour) |-> feedback_table[LastHour[k]]]
           at == 1..Len(items)
           seen == {items[k].sentiment : k \in at}
           counts == [label \in SentimentLabels \cup seen |->
                         Cardinality({k \in at : items[k].sentiment = label})]
           minutes == {Minute(items[k].timestamp) : k \in at}
           trend == [minute \in minutes |->
                        [label \in SentimentLabels |->
                            Cardinality({k \in at : /\ Minute(items[k].timestamp) = minute
                                                    /\ items[k].sentiment = label})]]
       IN  response' = IF seen \subseteq SentimentLabels
                       THEN Answer("dashboard", 200, [summary |-> counts, trend |-> trend])
                       ELSE [handler |-> "dashboard", errorType |-> "KeyError",
                             errorMessage |-> CHOOSE label \in seen \ SentimentLabels : TRUE]
    /\ UNCHANGED <<call, rets, pipeline, job_status, task, now, feedback_table, stream>>

NextFeedback ==
    \/ \E seconds \in {1, CleanupAge} : Tick(seconds)
    \/ \E body \in FeedbackBodies : ingest(body)
    \/ \E size \in 1..(2 * MaxFeedback), raising \in 0..(2 * MaxFeedback) :
           process(size, raising)
    \/ dashboard

SpecFeedback == Init /\ [][NextFeedback]_vars

RECURSIVE SumTrend(_, _, _)
SumTrend(trend, minutes, label) ==
    IF minutes = {} THEN 0
    ELSE LET minute == CHOOSE m \in minutes : TRUE
         IN  trend[minute][label] + SumTrend(trend, minutes \ {minute}, label)

(* C30: for any interleaving of ingest, stream processing and dashboard
   invocations, the dashboard handler answers statusCode 200 with summary and
   trend counts for every item of the last hour, items still PENDING
   included. *)
C30_DashboardAnswers ==
    [][(response' # response /\ response'.handler = "dashboard") =>
           /\ "status_code" \in DOMAIN response'
           /\ response'.status_code = 200
           /\ \A label \in SentimentLabels \cup {"PENDING"} :
                  LET n == Cardinality({k \in 1..Len(LastHour) :
                               feedback_table[LastHour[k]].sentiment = label})
                  IN  /\ Get(response'.body.summary, label, 0) = n
                      /\ label \in SentimentLabels =>
                             SumTrend(response'.body.trend,
                                      DOMAIN response'.body.trend, label) = n
      ]_vars

=============================================================================
